---------------------------- MODULE Spec2Model ----------------------------
(***************************************************************************)
(* TFS: the in-memory, single-directory file system of fs/state.c and      *)
(* fs/operations.c, as a state machine.                                    *)
(*                                                                         *)
(* The state is the i-node table, the data blocks with their allocation    *)
(* bitmaps, the open file table, and the locks of fs/state.c.  Each thread *)
(* runs a client program (a sequence of tfs_* calls taken from the tests)  *)
(* or issues calls chosen freely; a call advances in steps that follow the *)
(* lock acquisitions of the code, so that every interleaving the locks     *)
(* allow is an interleaving of the model.                                  *)
(*                                                                         *)
(* Scaling.  The configuration header (config.h) is not among the sources; *)
(* its constants are given small values here.  A block holds BLOCK_SIZE    *)
(* cells; a cell holds one byte of file content or one block reference     *)
(* (sizeof(int) is one cell).  A file name is a sequence of characters     *)
(* 1, 2, ... and 0 is the NUL character.                                   *)
(***************************************************************************)
EXTENDS Integers, Sequences, FiniteSets, TLC

(***************************************************************************)
(* Program constants                                                       *)
(***************************************************************************)
BLOCK_SIZE == 2
DATA_BLOCKS == 7
INODE_TABLE_SIZE == 4
INODE_DIRECT_REFS == 2
MAX_FILE_NAME == 2
MAX_OPEN_FILES == 3
ROOT_DIR_INUM == 0
SizeofInt == 1
MAX_DIR_ENTRIES == 2
MAX_INDIRECT_REFS == BLOCK_SIZE \div SizeofInt
MAX_FILE_SIZE == BLOCK_SIZE * (INODE_DIRECT_REFS + MAX_INDIRECT_REFS)

FREE == 0
TAKEN == 1
T_FILE == 0
T_DIRECTORY == 1

TFS_O_CREAT == "CREAT"
TFS_O_TRUNC == "TRUNC"
TFS_O_APPEND == "APPEND"

(***************************************************************************)
(* Bounds of the model                                                     *)
(***************************************************************************)
\* The worker threads beside the main thread, which is thread 1
NumWorkers == 2

Main == 1
Threads == 1 .. (NumWorkers + 1)
Workers == Threads \ {Main}
NoThread == 0

Inumbers == 0 .. (INODE_TABLE_SIZE - 1)
Blocks == 0 .. (DATA_BLOCKS - 1)
Handles == 0 .. (MAX_OPEN_FILES - 1)

VARIABLES
    \* persistent FS state (state.c:13-18)
    inode_table, free_inode_ts, fs_data, free_blocks,
    \* the directory entries held in the root directory's data block
    dir_entry,
    \* volatile FS state (state.c:23-25)
    open_file_table, free_open_file_entries, open_file_count,
    \* locks (state.c:28-32, part_000:42)
    inode_lock_table, inode_table_mutex, open_file_table_mutex, of_mutex,
    open_file_table_cond,
    \* set by state_destroy
    destroyed,
    \* the threads: position in the current call, its locals, the client
    \* program, the index of the next call, the results of the calls made;
    \* for a thread that chooses its calls as it goes, the calls it chooses
    \* from and the number of calls it may still make
    pc, loc, prog, ip, res, menu, budget

fsvars == <<inode_table, free_inode_ts, fs_data, free_blocks, dir_entry>>
oftvars == <<open_file_table, free_open_file_entries, open_file_count>>
lockvars == <<inode_lock_table, inode_table_mutex, open_file_table_mutex,
              of_mutex, open_file_table_cond>>
vars == <<inode_table, free_inode_ts, fs_data, free_blocks, dir_entry,
          open_file_table, free_open_file_entries, open_file_count,
          inode_lock_table, inode_table_mutex, open_file_table_mutex,
          of_mutex, open_file_table_cond, destroyed, pc, loc, prog, ip, res,
          menu, budget>>

(***************************************************************************)
(* Small helpers                                                           *)
(***************************************************************************)
Min(a, b) == IF a < b THEN a ELSE b

RECURSIVE SeqSum(_)
SeqSum(s) == IF s = <<>> THEN 0 ELSE Head(s) + SeqSum(Tail(s))

valid_inumber(inumber) == inumber >= 0 /\ inumber < INODE_TABLE_SIZE

valid_block_number(block_number) ==
    block_number >= 0 /\ block_number < DATA_BLOCKS

valid_file_handle(file_handle) ==
    file_handle >= 0 /\ file_handle < MAX_OPEN_FILES

\* valid_pathname: the path is "/" followed by name; strlen(path) > 1.
valid_pathname(name) == Len(name) >= 1

(***************************************************************************)
(* C strings.  CharAt reads a NUL past the end of the string.              *)
(***************************************************************************)
CharAt(s, k) == IF k <= Len(s) THEN s[k] ELSE 0

\* strncpy(d_name, sub_name, MAX_FILE_NAME - 1); d_name[MAX_FILE_NAME - 1] = 0
StoredName(sub_name) ==
    [k \in 1 .. MAX_FILE_NAME |->
        IF k <= MAX_FILE_NAME - 1 THEN CharAt(sub_name, k) ELSE 0]

\* strncmp(a, b, n) == 0: the strings agree up to the first NUL or n characters
StrncmpEq(a, b, n) ==
    \A k \in 1 .. n :
        (\A j \in 1 .. (k - 1) : CharAt(a, j) # 0 /\ CharAt(b, j) # 0)
            => CharAt(a, k) = CharAt(b, k)

(***************************************************************************)
(* Locks.  A mutex is its holder (NoThread when free); a rwlock is its     *)
(* writer and its set of readers.                                          *)
(***************************************************************************)
RwFree == [w |-> NoThread, r |-> {}]
CanWrlock(l) == l.w = NoThread /\ l.r = {}
\* A read lock granted whoever holds the lock
CanRdlockAlways(l) == TRUE
CanRdlock(l) == l.w = NoThread
Wrlock(l, t) == [l EXCEPT !.w = t]
Rdlock(l, t) == [l EXCEPT !.r = @ \cup {t}]
\* An unlock that releases a reader and never a writer
RwUnlockReadersOnly(l, t) == [l EXCEPT !.r = @ \ {t}]

\* pthread_rwlock_unlock by a thread that holds the lock
RwUnlock(l, t) ==
    IF l.w = t THEN [l EXCEPT !.w = NoThread] ELSE [l EXCEPT !.r = @ \ {t}]

(***************************************************************************)
(* Block store (state.c:138-198)                                           *)
(***************************************************************************)
\* data_block_alloc: the first FREE block of the bitmap fb, -1 when none
FirstFreeBlock(fb) ==
    IF \E b \in Blocks : fb[b] = FREE
    THEN CHOOSE b \in Blocks :
            fb[b] = FREE /\ \A c \in Blocks : c < b => fb[c] # FREE
    ELSE -1

data_block_alloc(fb) ==
    LET b == FirstFreeBlock(fb)
    IN  [b |-> b, fb |-> IF b = -1 THEN fb ELSE [fb EXCEPT ![b] = TAKEN]]

\* A release that leaves the block marked TAKEN
data_block_free_forgotten(fb, block_number) == fb

\* data_block_free: the bitmap after freeing block_number (valid)
data_block_free(fb, block_number) == [fb EXCEPT ![block_number] = FREE]


(***************************************************************************)
(* The persistent state as one value, for the operators that model the     *)
(* "unsafe" helpers of state.c: it the i-node table, fits its bitmap, fd   *)
(* the data blocks, fb their bitmap, de the root directory's entries.      *)
(* Each helper yields its return value and the state it leaves.            *)
(***************************************************************************)
FS == [it |-> inode_table, fits |-> free_inode_ts, fd |-> fs_data,
       fb |-> free_blocks, de |-> dir_entry]

SetFS(s) ==
    /\ inode_table' = s.it
    /\ free_inode_ts' = s.fits
    /\ fs_data' = s.fd
    /\ free_blocks' = s.fb
    /\ dir_entry' = s.de

\* An extension that keeps the block it allocated when it fails
inode_extend_keeping_block(s, inumber) ==
    IF ~valid_inumber(inumber) \/ s.fits[inumber] = FREE
    THEN [ret |-> -1, s |-> s]
    ELSE
    LET a == data_block_alloc(s.fb)
        b == a.b
        bc == s.it[inumber].i_data_block_count
    IN  IF b = -1 THEN [ret |-> -1, s |-> s]
        ELSE IF bc < INODE_DIRECT_REFS
        THEN [ret |-> b,
              s |-> [s EXCEPT !.fb = a.fb,
                              !.it[inumber].i_data_block[bc] = b,
                              !.it[inumber].i_data_block_count = bc + 1]]
        ELSE IF bc < INODE_DIRECT_REFS + MAX_INDIRECT_REFS
        THEN LET a2 == IF bc = INODE_DIRECT_REFS
                       THEN data_block_alloc(a.fb)
                       ELSE [b |-> s.it[inumber].i_data_extension_block,
                             fb |-> a.fb]
                 ext == a2.b
             IN  IF ~valid_block_number(ext)
                 THEN [ret |-> -1,
                       s |-> [s EXCEPT
                                !.fb = a2.fb,
                                !.it[inumber].i_data_extension_block = ext]]
                 ELSE [ret |-> b,
                       s |-> [s EXCEPT
                                !.fb = a2.fb,
                                !.it[inumber].i_data_extension_block = ext,
                                !.fd[ext][bc - INODE_DIRECT_REFS] = b,
                                !.it[inumber].i_data_block_count = bc + 1]]
        ELSE [ret |-> -1, s |-> [s EXCEPT !.fb = a.fb]]

\* An extension that allocates an indirect block for every block beyond the
\* direct ones
inode_extend_new_indirect_block(s, inumber) ==
    IF ~valid_inumber(inumber) \/ s.fits[inumber] = FREE
    THEN [ret |-> -1, s |-> s]
    ELSE
    LET a == data_block_alloc(s.fb)
        b == a.b
        bc == s.it[inumber].i_data_block_count
    IN  IF b = -1 THEN [ret |-> -1, s |-> s]
        ELSE IF bc < INODE_DIRECT_REFS
        THEN [ret |-> b,
              s |-> [s EXCEPT !.fb = a.fb,
                              !.it[inumber].i_data_block[bc] = b,
                              !.it[inumber].i_data_block_count = bc + 1]]
        ELSE IF bc < INODE_DIRECT_REFS + MAX_INDIRECT_REFS
        THEN LET a2 == data_block_alloc(a.fb)
                 ext == a2.b
             IN  IF ~valid_block_number(ext)
                 THEN [ret |-> -1,
                       s |-> [s EXCEPT
                                !.fb = data_block_free(a2.fb, b),
                                !.it[inumber].i_data_extension_block = ext]]
                 ELSE [ret |-> b,
                       s |-> [s EXCEPT
                                !.fb = a2.fb,
                                !.it[inumber].i_data_extension_block = ext,
                                !.fd[ext][bc - INODE_DIRECT_REFS] = b,
                                !.it[inumber].i_data_block_count = bc + 1]]
        ELSE [ret |-> -1, s |-> [s EXCEPT !.fb = data_block_free(a.fb, b)]]

\* inode_extend_unsafe (state.c:206-249)
inode_extend_unsafe(s, inumber) ==
    IF ~valid_inumber(inumber) \/ s.fits[inumber] = FREE
    THEN [ret |-> -1, s |-> s]
    ELSE
    LET a == data_block_alloc(s.fb)
        b == a.b
        bc == s.it[inumber].i_data_block_count
    IN  IF b = -1 THEN [ret |-> -1, s |-> s]
        ELSE IF bc < INODE_DIRECT_REFS
        THEN [ret |-> b,
              s |-> [s EXCEPT !.fb = a.fb,
                              !.it[inumber].i_data_block[bc] = b,
                              !.it[inumber].i_data_block_count = bc + 1]]
        ELSE IF bc < INODE_DIRECT_REFS + MAX_INDIRECT_REFS
        THEN LET a2 == IF bc = INODE_DIRECT_REFS
                       THEN data_block_alloc(a.fb)
                       ELSE [b |-> s.it[inumber].i_data_extension_block,
                             fb |-> a.fb]
                 ext == a2.b
             IN  IF ~valid_block_number(ext)
                 THEN \* the indirect block could not be allocated (or read)
                      [ret |-> -1,
                       s |-> [s EXCEPT
                                !.fb = data_block_free(a2.fb, b),
                                !.it[inumber].i_data_extension_block = ext]]
                 ELSE [ret |-> b,
                       s |-> [s EXCEPT
                                !.fb = a2.fb,
                                !.it[inumber].i_data_extension_block = ext,
                                !.fd[ext][bc - INODE_DIRECT_REFS] = b,
                                !.it[inumber].i_data_block_count = bc + 1]]
        ELSE [ret |-> -1, s |-> [s EXCEPT !.fb = data_block_free(a.fb, b)]]

\* A look-up that takes every index for the index of a direct block
inode_get_block_direct_only(s, inumber, index) ==
    IF ~valid_inumber(inumber) \/ s.fits[inumber] = FREE THEN -1
    ELSE IF index < 0 \/ index >= s.it[inumber].i_data_block_count THEN -1
    ELSE s.it[inumber].i_data_block[index % INODE_DIRECT_REFS]

\* inode_get_block_unsafe (state.c:463-483)
inode_get_block_unsafe(s, inumber, index) ==
    IF ~valid_inumber(inumber) \/ s.fits[inumber] = FREE THEN -1
    ELSE IF index < 0 \/ index >= s.it[inumber].i_data_block_count THEN -1
    ELSE IF index < INODE_DIRECT_REFS THEN s.it[inumber].i_data_block[index]
    ELSE IF ~valid_block_number(s.it[inumber].i_data_extension_block) THEN -1
    ELSE s.fd[s.it[inumber].i_data_extension_block][index - INODE_DIRECT_REFS]

\* The direct references alone
ClearRefsDirectOnly(s, inumber) ==
    [i \in 1 .. Min(s.it[inumber].i_data_block_count, INODE_DIRECT_REFS) |->
        s.it[inumber].i_data_block[i - 1]]

\* The block references inode_clear_unsafe frees, in the order it frees them:
\* the direct ones, the indirect ones, then the indirect block itself.
ClearRefs(s, inumber) ==
    LET ino == s.it[inumber]
        bc == ino.i_data_block_count
        nd == Min(bc, INODE_DIRECT_REFS)
        ext == ino.i_data_extension_block
    IN  [i \in 1 .. nd |-> ino.i_data_block[i - 1]]
        \o (IF bc > nd
            THEN IF ~valid_block_number(ext) THEN << -1 >>
                 ELSE [i \in 1 .. (bc - nd) |->
                          IF nd + i - 1 >= MAX_INDIRECT_REFS + INODE_DIRECT_REFS
                          THEN -1 ELSE s.fd[ext][i - 1]] \o <<ext>>
            ELSE <<>>)

\* data_block_free applied to the references of refs in order, stopping at the
\* first one that fails (an invalid block number)
RECURSIVE FreeRefs(_, _)
FreeRefs(fb, refs) ==
    IF refs = <<>> THEN [ret |-> 0, fb |-> fb]
    ELSE IF ~valid_block_number(Head(refs)) THEN [ret |-> -1, fb |-> fb]
    ELSE FreeRefs(data_block_free(fb, Head(refs)), Tail(refs))

\* A truncation that frees the blocks and leaves the size as it was
inode_clear_keeping_size(s, inumber) ==
    IF s.fits[inumber] = FREE THEN [ret |-> -1, s |-> s]
    ELSE LET f == FreeRefs(s.fb, ClearRefs(s, inumber))
         IN  [ret |-> f.ret,
              s |-> [s EXCEPT !.fb = f.fb,
                              !.it[inumber].i_data_block_count = 0]]

\* inode_clear_unsafe (state.c:306-348)
inode_clear_unsafe(s, inumber) ==
    IF s.fits[inumber] = FREE THEN [ret |-> -1, s |-> s]
    ELSE LET f == FreeRefs(s.fb, ClearRefs(s, inumber))
         IN  IF f.ret = -1 THEN [ret |-> -1, s |-> [s EXCEPT !.fb = f.fb]]
             ELSE [ret |-> 0,
                   s |-> [s EXCEPT !.fb = f.fb,
                                   !.it[inumber].i_size = 0,
                                   !.it[inumber].i_data_block_count = 0]]

\* The first FREE slot of the i-node bitmap, -1 when none
FirstFreeInode(fits) ==
    IF \E i \in Inumbers : fits[i] = FREE
    THEN CHOOSE i \in Inumbers :
            fits[i] = FREE /\ \A j \in Inumbers : j < i => fits[j] # FREE
    ELSE -1

\* inode_create_unsafe (state.c:258-298); a directory is the root directory,
\* whose entries are dir_entry
inode_create_unsafe(s, n_type) ==
    LET inumber == FirstFreeInode(s.fits)
    IN  IF inumber = -1 THEN [ret |-> -1, s |-> s]
        ELSE
        LET s1 == [s EXCEPT !.fits[inumber] = TAKEN,
                            !.it[inumber].i_node_type = n_type,
                            !.it[inumber].i_size = 0,
                            !.it[inumber].i_data_block_count = 0]
        IN  IF n_type = T_DIRECTORY
            THEN LET e == inode_extend_unsafe(s1, inumber)
                 IN  IF e.ret = -1
                     THEN [ret |-> -1,
                           s |-> [e.s EXCEPT !.fits[inumber] = FREE]]
                     ELSE [ret |-> inumber,
                           s |-> [e.s EXCEPT !.de =
                                    [i \in DOMAIN e.s.de |->
                                        [e.s.de[i] EXCEPT !.d_inumber = -1]]]]
            ELSE [ret |-> inumber, s |-> s1]

DirSlots == 0 .. (MAX_DIR_ENTRIES - 1)

\* add_dir_entry_unsafe (state.c:493-527)
add_dir_entry_unsafe(s, inumber, sub_inumber, sub_name) ==
    IF ~valid_inumber(inumber) \/ ~valid_inumber(sub_inumber)
    THEN [ret |-> -1, s |-> s]
    ELSE IF s.it[inumber].i_node_type # T_DIRECTORY THEN [ret |-> -1, s |-> s]
    ELSE IF Len(sub_name) = 0 THEN [ret |-> -1, s |-> s]
    ELSE IF ~valid_block_number(s.it[inumber].i_data_block[0])
    THEN [ret |-> -1, s |-> s]
    ELSE IF \E i \in DirSlots : s.de[i].d_inumber = -1
    THEN LET i == CHOOSE i \in DirSlots :
                    /\ s.de[i].d_inumber = -1
                    /\ \A j \in DirSlots : j < i => s.de[j].d_inumber # -1
         IN  [ret |-> 0,
              s |-> [s EXCEPT !.de[i] = [d_name |-> StoredName(sub_name),
                                         d_inumber |-> sub_inumber]]]
    ELSE [ret |-> -1, s |-> s]

\* find_in_dir_unsafe (state.c:535-559)
find_in_dir_unsafe(s, inumber, sub_name) ==
    IF s.it[inumber].i_node_type # T_DIRECTORY THEN -1
    ELSE IF ~valid_block_number(s.it[inumber].i_data_block[0]) THEN -1
    ELSE IF \E i \in DirSlots :
               /\ s.de[i].d_inumber # -1
               /\ StrncmpEq(s.de[i].d_name, sub_name, MAX_FILE_NAME)
    THEN LET i == CHOOSE i \in DirSlots :
                    /\ s.de[i].d_inumber # -1
                    /\ StrncmpEq(s.de[i].d_name, sub_name, MAX_FILE_NAME)
                    /\ \A j \in DirSlots : j < i =>
                          ~(/\ s.de[j].d_inumber # -1
                            /\ StrncmpEq(s.de[j].d_name, sub_name,
                                         MAX_FILE_NAME))
         IN  s.de[i].d_inumber
    ELSE -1

\* create_in_dir between its locks (state.c:611-637): look the name up, and
\* create the i-node and its entry when it is not there
create_in_dir_unsafe(s, inumber, type, sub_name) ==
    LET found == find_in_dir_unsafe(s, inumber, sub_name)
    IN  IF found >= 0 THEN [ret |-> found, s |-> s]
        ELSE LET c == inode_create_unsafe(s, type)
             IN  IF c.ret = -1 THEN [ret |-> -1, s |-> c.s]
                 ELSE LET a == add_dir_entry_unsafe(c.s, inumber, c.ret,
                                                    sub_name)
                      IN  IF a.ret = -1 THEN [ret |-> -1, s |-> a.s]
                          ELSE [ret |-> c.ret, s |-> a.s]

(***************************************************************************)
(* The state after tfs_init (operations.c:8-20): state_init, then the root *)
(* directory created as i-node ROOT_DIR_INUM.  Static storage is zeroed.   *)
(***************************************************************************)
ZeroInode ==
    [i_node_type |-> T_FILE, i_size |-> 0, i_data_block_count |-> 0,
     i_data_block |-> [k \in 0 .. (INODE_DIRECT_REFS - 1) |-> 0],
     i_data_extension_block |-> 0]

state_init ==
    [it |-> [i \in Inumbers |-> ZeroInode],
     fits |-> [i \in Inumbers |-> FREE],
     fd |-> [b \in Blocks |-> [k \in 0 .. (BLOCK_SIZE - 1) |-> 0]],
     fb |-> [b \in Blocks |-> FREE],
     de |-> [i \in DirSlots |->
                [d_name |-> [k \in 1 .. MAX_FILE_NAME |-> 0], d_inumber |-> 0]]]

tfs_init == inode_create_unsafe(state_init, T_DIRECTORY)


(***************************************************************************)
(* Threads and their client programs.  A program is the sequence of calls  *)
(* a thread makes, ip the index of its next call; a call is a record       *)
(*    op    "open", "close", "write", "read", "destroy_after_all_closed"   *)
(*          or "join"                                                      *)
(*    name, flags   the path (without its "/") and the flags of an open    *)
(*    fh, ref       the file handle: fh itself when ref is <<>>, and else  *)
(*                  the value returned by call ref[2] of thread ref[1]     *)
(*    buf           the bytes to write                                     *)
(*    len           the number of bytes to read                            *)
(* A thread with an empty program and budget left chooses its next call    *)
(* from its menu, as a client that never closes a handle while a read or   *)
(* a write on it is under way, and never reads or writes a handle that is  *)
(* not open.                                                               *)
(***************************************************************************)
NoCall == [op |-> "none", name |-> <<>>, flags |-> {}, fh |-> -1,
           ref |-> <<>>, buf |-> <<>>, len |-> 0]
OpOpen(name, flags) == [NoCall EXCEPT !.op = "open", !.name = name,
                                      !.flags = flags]
OpClose(fh) == [NoCall EXCEPT !.op = "close", !.fh = fh]
OpCloseRef(ref) == [NoCall EXCEPT !.op = "close", !.ref = ref]
OpWrite(fh, buf) == [NoCall EXCEPT !.op = "write", !.fh = fh, !.buf = buf]
OpWriteRef(ref, buf) == [NoCall EXCEPT !.op = "write", !.ref = ref, !.buf = buf]
OpRead(fh, len) == [NoCall EXCEPT !.op = "read", !.fh = fh, !.len = len]
OpReadRef(ref, len) == [NoCall EXCEPT !.op = "read", !.ref = ref, !.len = len]
OpDestroyAfterAllClosed == [NoCall EXCEPT !.op = "destroy_after_all_closed"]
OpJoin == [NoCall EXCEPT !.op = "join"]

\* The locals of a call: its arguments, inum (tfs_open's inum), inode (the
\* i-node the pointer "inode" of read and write refers to), count (to_write,
\* to_read) and done (written, read); rbuf is the caller's read buffer and ret
\* the value the last call returned.
IdleLoc == [op |-> "none", name |-> <<>>, flags |-> {}, fh |-> -1,
            buf |-> <<>>, inum |-> -1, inode |-> -1, count |-> 0, done |-> 0,
            rbuf |-> <<>>, ret |-> 0]

\* The threads in the middle of a read or a write on handle h, and those in
\* the middle of closing it
InIO(h) ==
    {u \in Threads :
        pc[u] # "idle" /\ loc[u].op \in {"read", "write"} /\ loc[u].fh = h}
InClose(h) ==
    {u \in Threads : pc[u] # "idle" /\ loc[u].op = "close" /\ loc[u].fh = h}

Allowed(o) ==
    CASE o.op \in {"read", "write"} ->
            valid_file_handle(o.fh) =>
                free_open_file_entries[o.fh] = TAKEN /\ InClose(o.fh) = {}
      [] o.op = "close" -> InIO(o.fh) = {}
      [] OTHER -> TRUE

\* The calls thread t may make next
Calls(t) ==
    IF pc[t] # "idle" THEN {}
    ELSE IF ip[t] <= Len(prog[t])
    THEN LET o == prog[t][ip[t]]
         IN  IF o.ref = <<>> THEN {o}
             ELSE IF Len(res[o.ref[1]]) >= o.ref[2]
             THEN {[o EXCEPT !.fh = res[o.ref[1]][o.ref[2]]]}
             ELSE {}
    ELSE IF budget[t] > 0 THEN {o \in menu[t] : Allowed(o)}
    ELSE {}

\* Thread t has made all its calls
Finished(t) == pc[t] = "idle" /\ ip[t] > Len(prog[t]) /\ budget[t] = 0

\* The locals at the entry of call o
Enter(t, o) ==
    [IdleLoc EXCEPT !.op = o.op, !.name = o.name, !.flags = o.flags,
                    !.fh = o.fh, !.buf = o.buf,
                    !.count = IF o.op = "write" THEN Len(o.buf) ELSE o.len]

\* The client program of thread t after its call returned r
Returned(t, r) ==
    /\ ip' = [ip EXCEPT ![t] = IF @ <= Len(prog[t]) THEN @ + 1 ELSE @]
    /\ res' = [res EXCEPT ![t] = IF ip[t] <= Len(prog[t]) THEN Append(@, r)
                                 ELSE @]
    /\ budget' = [budget EXCEPT ![t] = IF ip[t] <= Len(prog[t]) THEN @
                                       ELSE @ - 1]
    /\ UNCHANGED <<prog, menu>>

\* The call of thread t returns r, the read buffer holding rb; the idle
\* thread remembers which call it made last (op, fh) and what it returned.
IdleAfter(t, r, rb) ==
    [IdleLoc EXCEPT !.op = loc[t].op, !.fh = loc[t].fh, !.ret = r, !.rbuf = rb]

Return(t, r, rb) ==
    /\ pc' = [pc EXCEPT ![t] = "idle"]
    /\ loc' = [loc EXCEPT ![t] = IdleAfter(t, r, rb)]
    /\ Returned(t, r)

\* Call o of thread t returns r without a step of its own
ReturnAtEntry(t, o, r) ==
    /\ pc' = [pc EXCEPT ![t] = "idle"]
    /\ loc' = [loc EXCEPT ![t] = [IdleLoc EXCEPT !.op = o.op, !.fh = o.fh,
                                                 !.ret = r]]
    /\ Returned(t, r)

Goto(t, label) ==
    /\ pc' = [pc EXCEPT ![t] = label]
    /\ UNCHANGED <<prog, ip, res, menu, budget>>

(***************************************************************************)
(* tfs_open (operations.c:51-77)                                           *)
(***************************************************************************)
\* tfs_open up to its first lock (operations.c:51-58): an invalid path name
\* is refused; with TFS_O_CREAT create_in_dir locks the i-node table
\* (state.c:602), without it find_in_dir read-locks the directory's i-node
\* (state.c:572)
tfs_open(t) ==
    /\ \E o \in Calls(t) :
          /\ o.op = "open"
          /\ IF ~valid_pathname(o.name)
             THEN /\ ReturnAtEntry(t, o, -1)
                  /\ UNCHANGED <<inode_table_mutex, inode_lock_table>>
             ELSE /\ loc' = [loc EXCEPT ![t] = Enter(t, o)]
                  /\ IF TFS_O_CREAT \in o.flags
                     THEN /\ inode_table_mutex = NoThread
                          /\ inode_table_mutex' = t
                          /\ Goto(t, "create_in_dir_wrlock")
                          /\ UNCHANGED inode_lock_table
                     ELSE /\ CanRdlock(inode_lock_table[ROOT_DIR_INUM])
                          /\ inode_lock_table' =
                                [inode_lock_table EXCEPT
                                    ![ROOT_DIR_INUM] = Rdlock(@, t)]
                          /\ Goto(t, "find_in_dir_body")
                          /\ UNCHANGED inode_table_mutex
    /\ UNCHANGED <<fsvars, oftvars, open_file_table_mutex, of_mutex,
                   open_file_table_cond, destroyed>>

\* After the look-up or the creation gave inum: truncate, or go on to the
\* open file table (operations.c:60-72)
AfterLookup(t, inum) ==
    IF inum = -1
    THEN Return(t, -1, loc[t].rbuf)
    ELSE /\ loc' = [loc EXCEPT ![t].inum = inum]
         /\ Goto(t, IF TFS_O_TRUNC \in loc[t].flags
                    THEN "inode_clear" ELSE "add_to_open_file_table")

\* create_in_dir: write-lock the directory's i-node
create_in_dir_wrlock(t) ==
    /\ pc[t] = "create_in_dir_wrlock"
    /\ CanWrlock(inode_lock_table[ROOT_DIR_INUM])
    /\ inode_lock_table' =
          [inode_lock_table EXCEPT ![ROOT_DIR_INUM] = Wrlock(@, t)]
    /\ Goto(t, "create_in_dir_body")
    /\ UNCHANGED <<fsvars, oftvars, inode_table_mutex, open_file_table_mutex,
                   of_mutex, open_file_table_cond, destroyed, loc>>

\* create_in_dir: find or create the entry, and unlock
create_in_dir_body(t) ==
    /\ pc[t] = "create_in_dir_body"
    /\ LET c == create_in_dir_unsafe(FS, ROOT_DIR_INUM, T_FILE, loc[t].name)
       IN  /\ SetFS(c.s)
           /\ AfterLookup(t, c.ret)
    /\ inode_lock_table' =
          [inode_lock_table EXCEPT ![ROOT_DIR_INUM] = RwUnlock(@, t)]
    /\ inode_table_mutex' = NoThread
    /\ UNCHANGED <<oftvars, open_file_table_mutex, of_mutex,
                   open_file_table_cond, destroyed>>

\* find_in_dir: look the name up, and unlock
find_in_dir_body(t) ==
    /\ pc[t] = "find_in_dir_body"
    /\ AfterLookup(t, find_in_dir_unsafe(FS, ROOT_DIR_INUM, loc[t].name))
    /\ inode_lock_table' =
          [inode_lock_table EXCEPT ![ROOT_DIR_INUM] = RwUnlock(@, t)]
    /\ UNCHANGED <<fsvars, oftvars, inode_table_mutex, open_file_table_mutex,
                   of_mutex, open_file_table_cond, destroyed>>

\* inode_clear (state.c:377-393): write-lock the i-node
inode_clear_wrlock(t) ==
    /\ pc[t] = "inode_clear"
    /\ IF ~valid_inumber(loc[t].inum)
       THEN /\ Return(t, -1, loc[t].rbuf)
            /\ UNCHANGED inode_lock_table
       ELSE /\ CanWrlock(inode_lock_table[loc[t].inum])
            /\ inode_lock_table' =
                  [inode_lock_table EXCEPT ![loc[t].inum] = Wrlock(@, t)]
            /\ Goto(t, "inode_clear_body")
            /\ UNCHANGED loc
    /\ UNCHANGED <<fsvars, oftvars, inode_table_mutex, open_file_table_mutex,
                   of_mutex, open_file_table_cond, destroyed>>

\* inode_clear: free the blocks, and unlock
inode_clear_body(t) ==
    /\ pc[t] = "inode_clear_body"
    /\ LET c == inode_clear_unsafe(FS, loc[t].inum)
       IN  /\ SetFS(c.s)
           /\ IF c.ret = -1
              THEN Return(t, -1, loc[t].rbuf)
              ELSE Goto(t, "add_to_open_file_table") /\ UNCHANGED loc
    /\ inode_lock_table' =
          [inode_lock_table EXCEPT ![loc[t].inum] = RwUnlock(@, t)]
    /\ UNCHANGED <<oftvars, inode_table_mutex, open_file_table_mutex,
                   of_mutex, open_file_table_cond, destroyed>>

\* add_to_open_file_table (state.c:657-678): lock the open file table
add_to_open_file_table_lock(t) ==
    /\ pc[t] = "add_to_open_file_table"
    /\ open_file_table_mutex = NoThread
    /\ open_file_table_mutex' = t
    /\ Goto(t, "add_to_open_file_table_body")
    /\ UNCHANGED <<fsvars, oftvars, inode_lock_table, inode_table_mutex,
                   of_mutex, open_file_table_cond, destroyed, loc>>

\* A search that takes the last entry when no entry is FREE
FirstFreeEntryOrLast ==
    IF \E i \in Handles : free_open_file_entries[i] = FREE
    THEN CHOOSE i \in Handles :
            /\ free_open_file_entries[i] = FREE
            /\ \A j \in Handles : j < i => free_open_file_entries[j] # FREE
    ELSE MAX_OPEN_FILES - 1

\* A search that takes the first entry whether it is FREE or not
FirstEntryUnchecked == CHOOSE i \in Handles : \A j \in Handles : i <= j

\* The first FREE entry of the open file table, -1 when none
FirstFreeEntry ==
    IF \E i \in Handles : free_open_file_entries[i] = FREE
    THEN CHOOSE i \in Handles :
            /\ free_open_file_entries[i] = FREE
            /\ \A j \in Handles : j < i => free_open_file_entries[j] # FREE
    ELSE -1

\* add_to_open_file_table: take the first free entry, and unlock
add_to_open_file_table_body(t) ==
    /\ pc[t] = "add_to_open_file_table_body"
    /\ LET i == FirstFreeEntry
       IN  IF i = -1
           THEN /\ UNCHANGED oftvars
                /\ Return(t, -1, loc[t].rbuf)
           ELSE /\ free_open_file_entries' =
                      [free_open_file_entries EXCEPT ![i] = TAKEN]
                /\ open_file_table' =
                      [open_file_table EXCEPT ![i] =
                          [of_inumber |-> loc[t].inum,
                           of_append |-> TFS_O_APPEND \in loc[t].flags,
                           of_offset |-> 0]]
                /\ open_file_count' = open_file_count + 1
                /\ Return(t, i, loc[t].rbuf)
    /\ open_file_table_mutex' = NoThread
    /\ UNCHANGED <<fsvars, inode_lock_table, inode_table_mutex, of_mutex,
                   open_file_table_cond, destroyed>>

(***************************************************************************)
(* tfs_close (operations.c:79), remove_from_open_file_table                *)
(* (state.c:685-707)                                                       *)
(***************************************************************************)
tfs_close(t) ==
    /\ open_file_table_mutex = NoThread
    /\ open_file_table_mutex' = t
    /\ \E o \in Calls(t) :
          /\ o.op = "close"
          /\ loc' = [loc EXCEPT ![t] = Enter(t, o)]
    /\ Goto(t, "remove_from_open_file_table_body")
    /\ UNCHANGED <<fsvars, oftvars, inode_lock_table, inode_table_mutex,
                   of_mutex, open_file_table_cond, destroyed>>

\* A test of the handle that forgets the state of its entry
HandleOutOfRange(fhandle) == ~valid_file_handle(fhandle)

\* The handles remove_from_open_file_table refuses (state.c:690-691)
HandleNotOpen(fhandle) ==
    \/ ~valid_file_handle(fhandle)
    \/ free_open_file_entries[fhandle] # TAKEN

\* pthread_cond_signal: one of the threads waiting on the condition, if any,
\* is woken (it has then to take the mutex again); with none waiting the
\* signal has no effect
remove_from_open_file_table_body(t) ==
    /\ pc[t] = "remove_from_open_file_table_body"
    /\ LET fhandle == loc[t].fh
       IN  IF HandleNotOpen(fhandle)
           THEN /\ UNCHANGED <<oftvars, open_file_table_cond>>
                /\ Return(t, -1, loc[t].rbuf)
           ELSE /\ free_open_file_entries' =
                      [free_open_file_entries EXCEPT ![fhandle] = FREE]
                /\ open_file_count' = open_file_count - 1
                /\ UNCHANGED open_file_table
                /\ IF open_file_count - 1 = 0 /\ open_file_table_cond # {}
                   THEN \E w \in open_file_table_cond :
                          /\ open_file_table_cond' = open_file_table_cond \ {w}
                          /\ pc' = [pc EXCEPT ![t] = "idle",
                                              ![w] = "cond_wait_woken"]
                          /\ loc' = [loc EXCEPT ![t] = IdleAfter(t, 0, <<>>)]
                          /\ Returned(t, 0)
                   ELSE /\ UNCHANGED open_file_table_cond
                        /\ Return(t, 0, loc[t].rbuf)
    /\ open_file_table_mutex' = NoThread
    /\ UNCHANGED <<fsvars, inode_lock_table, inode_table_mutex, of_mutex,
                   destroyed>>

(***************************************************************************)
(* tfs_destroy_after_all_closed (operations.c:23),                         *)
(* state_destroy_after_all_closed (state.c:116-132)                        *)
(***************************************************************************)
\* pthread_mutex_lock(&open_file_table_mutex)
state_destroy_after_all_closed_lock(t) ==
    /\ open_file_table_mutex = NoThread
    /\ open_file_table_mutex' = t
    /\ \E o \in Calls(t) :
          /\ o.op = "destroy_after_all_closed"
          /\ loc' = [loc EXCEPT ![t] = Enter(t, o)]
    /\ Goto(t, "cond_wait")
    /\ UNCHANGED <<fsvars, oftvars, inode_lock_table, inode_table_mutex,
                   of_mutex, open_file_table_cond, destroyed>>

\* pthread_cond_wait: release the mutex and wait for a signal
cond_wait(t) ==
    /\ pc[t] = "cond_wait"
    /\ open_file_table_mutex' = NoThread
    /\ open_file_table_cond' = open_file_table_cond \cup {t}
    /\ Goto(t, "cond_wait_blocked")
    /\ UNCHANGED <<fsvars, oftvars, inode_lock_table, inode_table_mutex,
                   of_mutex, destroyed, loc>>

\* pthread_cond_wait returns: the woken thread has the mutex again
cond_wait_return(t) ==
    /\ pc[t] = "cond_wait_woken"
    /\ open_file_table_mutex = NoThread
    /\ open_file_table_mutex' = t
    /\ Goto(t, "state_destroy")
    /\ UNCHANGED <<fsvars, oftvars, inode_lock_table, inode_table_mutex,
                   of_mutex, open_file_table_cond, destroyed, loc>>

\* unlock the mutex; state_destroy (state.c:100-114)
state_destroy(t) ==
    /\ pc[t] = "state_destroy"
    /\ open_file_table_mutex' = NoThread
    /\ destroyed' = TRUE
    /\ Return(t, 0, loc[t].rbuf)
    /\ UNCHANGED <<fsvars, oftvars, inode_lock_table, inode_table_mutex,
                   of_mutex, open_file_table_cond>>


(***************************************************************************)
(* tfs_write (operations.c:81-83), write_to_open_file (state.c:716-812)    *)
(***************************************************************************)
\* up to the first lock: an invalid handle is refused; the entry's mutex is
\* locked and the i-node of the entry looked up (state.c:717-733)
tfs_write(t) ==
    /\ \E o \in Calls(t) :
          /\ o.op = "write"
          /\ IF ~valid_file_handle(o.fh)
             THEN /\ ReturnAtEntry(t, o, -1)
                  /\ UNCHANGED of_mutex
             ELSE /\ of_mutex[o.fh] = NoThread
                  /\ LET inumber == open_file_table[o.fh].of_inumber
                     IN  IF ~valid_inumber(inumber)
                         THEN /\ ReturnAtEntry(t, o, -1)
                              /\ UNCHANGED of_mutex
                         ELSE /\ of_mutex' = [of_mutex EXCEPT ![o.fh] = t]
                              /\ loc' = [loc EXCEPT ![t] =
                                            [Enter(t, o) EXCEPT
                                                !.inode = inumber]]
                              /\ Goto(t, "write_wrlock")
    /\ UNCHANGED <<fsvars, oftvars, inode_lock_table, inode_table_mutex,
                   open_file_table_mutex, open_file_table_cond, destroyed>>

\* write-lock the i-node of the entry (state.c:735-739)
write_lock_inode(t) ==
    /\ pc[t] = "write_wrlock"
    /\ LET inumber == open_file_table[loc[t].fh].of_inumber
       IN  /\ CanWrlock(inode_lock_table[inumber])
           /\ inode_lock_table' =
                 [inode_lock_table EXCEPT ![inumber] = Wrlock(@, t)]
    /\ Goto(t, "write_check")
    /\ UNCHANGED <<fsvars, oftvars, inode_table_mutex, open_file_table_mutex,
                   of_mutex, open_file_table_cond, destroyed, loc>>

\* A start that moves the offset of an entry in append mode forward only
StartOffsetForwardOnly(file, inode) ==
    IF file.of_append /\ file.of_offset < inode.i_size THEN inode.i_size
    ELSE file.of_offset

\* A start that ignores the append mode of the entry
StartOffsetIgnoringAppend(file, inode) == file.of_offset

\* The offset a read or a write starts at: the end of the file for an entry
\* in append mode (state.c:741-744, 845-848)
StartOffset(file, inode) ==
    IF file.of_append THEN inode.i_size ELSE file.of_offset

\* A bounds check against the capacity of a file instead of its size
OffsetBeyondCapacity(offset, inode) == offset > MAX_FILE_SIZE

\* A bounds check that also refuses the end of the file
OffsetAtOrPastEnd(offset, inode) == offset >= inode.i_size

\* Whether the offset is out of bounds (state.c:746-751, 850-855)
OffsetOutOfBounds(offset, inode) == offset > inode.i_size

\* A write that is not clamped at the capacity of a file
ClampWriteNone(to_write, offset) == to_write

\* A read that is not clamped at the end of the file
ClampReadNone(to_read, offset, inode) == to_read

\* How many bytes to write (state.c:753-756)
ClampWrite(to_write, offset) ==
    IF to_write > MAX_FILE_SIZE - offset THEN MAX_FILE_SIZE - offset
    ELSE to_write

\* How many bytes to read (state.c:857-860)
ClampRead(to_read, offset, inode) ==
    IF to_read > inode.i_size - offset THEN inode.i_size - offset
    ELSE to_read

\* The bytes to transfer in the block (state.c:789-791, 884-886)
InBlock(offset, total, done) ==
    IF offset + total - done < BLOCK_SIZE THEN total - done
    ELSE BLOCK_SIZE - offset

\* pthread_rwlock_unlock of lock l by thread t.  Unlocking a lock the thread
\* does not hold is undefined: the lock is left as it was, or comes out
\* released under its holders.
UnlockOutcomes(l, t) ==
    IF l.w = t \/ t \in l.r THEN {RwUnlock(l, t)} ELSE {l, RwFree}

\* Both locks of a read or a write released, the i-node's lock being the one
\* of the entry's current i-number
UnlockBoth(t) ==
    /\ \E l \in UnlockOutcomes(
                    inode_lock_table[open_file_table[loc[t].fh].of_inumber], t) :
          inode_lock_table' =
              [inode_lock_table EXCEPT
                  ![open_file_table[loc[t].fh].of_inumber] = l]
    /\ of_mutex' = [of_mutex EXCEPT ![loc[t].fh] = NoThread]

\* append mode, the bounds check and the clamp (state.c:741-756)
write_check(t) ==
    /\ pc[t] = "write_check"
    /\ LET fh == loc[t].fh
           inode == inode_table[loc[t].inode]
           offset == StartOffset(open_file_table[fh], inode)
       IN  /\ open_file_table' =
                 [open_file_table EXCEPT ![fh].of_offset = offset]
           /\ IF OffsetOutOfBounds(offset, inode)
              THEN /\ UnlockBoth(t)
                   /\ Return(t, -1, <<>>)
              ELSE /\ loc' = [loc EXCEPT ![t].count =
                                 ClampWrite(loc[t].count, offset)]
                   /\ Goto(t, "write_block")
                   /\ UNCHANGED <<inode_lock_table, of_mutex>>
    /\ UNCHANGED <<fsvars, free_open_file_entries, open_file_count,
                   inode_table_mutex, open_file_table_mutex,
                   open_file_table_cond, destroyed>>

\* one turn of the loop: extend the i-node when needed, and copy the bytes
\* that go into the block (state.c:759-795)
write_block(t) ==
    /\ pc[t] = "write_block"
    /\ loc[t].done < loc[t].count
    /\ LET fh == loc[t].fh
           file == open_file_table[fh]
           bi == file.of_offset \div BLOCK_SIZE
           offset == file.of_offset % BLOCK_SIZE
           e == IF inode_table[loc[t].inode].i_data_block_count = bi
                THEN inode_extend_unsafe(FS, file.of_inumber)
                ELSE [ret |-> 0, s |-> FS]
           b == IF e.ret = -1 THEN -1
                ELSE inode_get_block_unsafe(e.s, file.of_inumber, bi)
           n == InBlock(offset, loc[t].count, loc[t].done)
       IN  IF ~valid_block_number(b)
           THEN /\ SetFS(e.s)
                /\ UnlockBoth(t)
                /\ UNCHANGED open_file_table
                /\ Return(t, -1, <<>>)
           ELSE /\ SetFS([e.s EXCEPT !.fd[b] =
                            [k \in 0 .. (BLOCK_SIZE - 1) |->
                                IF k >= offset /\ k < offset + n
                                THEN loc[t].buf[loc[t].done + 1 + (k - offset)]
                                ELSE e.s.fd[b][k]]])
                /\ open_file_table' =
                      [open_file_table EXCEPT ![fh].of_offset = @ + n]
                /\ loc' = [loc EXCEPT ![t].done = @ + n]
                /\ Goto(t, "write_block")
                /\ UNCHANGED <<inode_lock_table, of_mutex>>
    /\ UNCHANGED <<free_open_file_entries, open_file_count, inode_table_mutex,
                   open_file_table_mutex, open_file_table_cond, destroyed>>

\* A write that leaves the size of the file as it was
SizeUnchanged(of_offset, i_size) == i_size

\* The size of the file after a write that left the offset at of_offset
\* (state.c:797-800)
SizeAfterWrite(of_offset, i_size) ==
    IF of_offset > i_size THEN of_offset ELSE i_size

\* update the size of the file, unlock and return (state.c:797-811)
write_finish(t) ==
    /\ pc[t] = "write_block"
    /\ loc[t].done >= loc[t].count
    /\ inode_table' =
          [inode_table EXCEPT ![loc[t].inode].i_size =
              SizeAfterWrite(open_file_table[loc[t].fh].of_offset, @)]
    /\ UnlockBoth(t)
    /\ Return(t, loc[t].count, <<>>)
    /\ UNCHANGED <<free_inode_ts, fs_data, free_blocks, dir_entry, oftvars,
                   inode_table_mutex, open_file_table_mutex,
                   open_file_table_cond, destroyed>>

\* A read that takes the mutex of the entry without waiting for it
tfs_read_unlocked(t) ==
    /\ \E o \in Calls(t) :
          /\ o.op = "read"
          /\ IF ~valid_file_handle(o.fh)
             THEN /\ ReturnAtEntry(t, o, -1)
                  /\ UNCHANGED of_mutex
             ELSE /\ of_mutex' = [of_mutex EXCEPT ![o.fh] = t]
                  /\ LET inumber == open_file_table[o.fh].of_inumber
                     IN  IF ~valid_inumber(inumber)
                         THEN ReturnAtEntry(t, o, -1)
                         ELSE /\ loc' = [loc EXCEPT ![t] =
                                            [Enter(t, o) EXCEPT
                                                !.inode = inumber]]
                              /\ Goto(t, "read_rdlock")
    /\ UNCHANGED <<fsvars, oftvars, inode_lock_table, inode_table_mutex,
                   open_file_table_mutex, open_file_table_cond, destroyed>>

(***************************************************************************)
(* tfs_read (operations.c:85-87), read_from_open_file (state.c:821-902)    *)
(***************************************************************************)
\* up to the first lock: an invalid handle is refused; the entry's mutex is
\* locked and the i-node of the entry looked up (state.c:822-837).  The
\* return at line 836 leaves the mutex locked.
tfs_read(t) ==
    /\ \E o \in Calls(t) :
          /\ o.op = "read"
          /\ IF ~valid_file_handle(o.fh)
             THEN /\ ReturnAtEntry(t, o, -1)
                  /\ UNCHANGED of_mutex
             ELSE /\ of_mutex[o.fh] = NoThread
                  /\ of_mutex' = [of_mutex EXCEPT ![o.fh] = t]
                  /\ LET inumber == open_file_table[o.fh].of_inumber
                     IN  IF ~valid_inumber(inumber)
                         THEN ReturnAtEntry(t, o, -1)
                         ELSE /\ loc' = [loc EXCEPT ![t] =
                                            [Enter(t, o) EXCEPT
                                                !.inode = inumber]]
                              /\ Goto(t, "read_rdlock")
    /\ UNCHANGED <<fsvars, oftvars, inode_lock_table, inode_table_mutex,
                   open_file_table_mutex, open_file_table_cond, destroyed>>

\* read-lock the i-node of the entry (state.c:839-843)
read_lock_inode(t) ==
    /\ pc[t] = "read_rdlock"
    /\ LET inumber == open_file_table[loc[t].fh].of_inumber
       IN  /\ CanRdlock(inode_lock_table[inumber])
           /\ inode_lock_table' =
                 [inode_lock_table EXCEPT ![inumber] = Rdlock(@, t)]
    /\ Goto(t, "read_check")
    /\ UNCHANGED <<fsvars, oftvars, inode_table_mutex, open_file_table_mutex,
                   of_mutex, open_file_table_cond, destroyed, loc>>

\* append mode, the bounds check and the clamp (state.c:845-860)
read_check(t) ==
    /\ pc[t] = "read_check"
    /\ LET fh == loc[t].fh
           inode == inode_table[loc[t].inode]
           offset == StartOffset(open_file_table[fh], inode)
       IN  /\ open_file_table' =
                 [open_file_table EXCEPT ![fh].of_offset = offset]
           /\ IF OffsetOutOfBounds(offset, inode)
              THEN /\ UnlockBoth(t)
                   /\ Return(t, -1, <<>>)
              ELSE /\ loc' = [loc EXCEPT ![t].count =
                                 ClampRead(loc[t].count, offset, inode)]
                   /\ Goto(t, "read_block")
                   /\ UNCHANGED <<inode_lock_table, of_mutex>>
    /\ UNCHANGED <<fsvars, free_open_file_entries, open_file_count,
                   inode_table_mutex, open_file_table_mutex,
                   open_file_table_cond, destroyed>>

\* one turn of the loop: copy the bytes that come from the block
\* (state.c:863-890)
read_block(t) ==
    /\ pc[t] = "read_block"
    /\ loc[t].done < loc[t].count
    /\ LET fh == loc[t].fh
           file == open_file_table[fh]
           bi == file.of_offset \div BLOCK_SIZE
           offset == file.of_offset % BLOCK_SIZE
           b == inode_get_block_unsafe(FS, file.of_inumber, bi)
           n == InBlock(offset, loc[t].count, loc[t].done)
       IN  IF ~valid_block_number(b)
           THEN /\ UnlockBoth(t)
                /\ UNCHANGED open_file_table
                /\ Return(t, -1, loc[t].rbuf)
           ELSE /\ open_file_table' =
                      [open_file_table EXCEPT ![fh].of_offset = @ + n]
                /\ loc' = [loc EXCEPT
                             ![t].done = @ + n,
                             ![t].rbuf = @ \o [k \in 1 .. n |->
                                                 fs_data[b][offset + k - 1]]]
                /\ Goto(t, "read_block")
                /\ UNCHANGED <<inode_lock_table, of_mutex>>
    /\ UNCHANGED <<fsvars, free_open_file_entries, open_file_count,
                   inode_table_mutex, open_file_table_mutex,
                   open_file_table_cond, destroyed>>

\* unlock and return (state.c:892-901)
read_finish(t) ==
    /\ pc[t] = "read_block"
    /\ loc[t].done >= loc[t].count
    /\ UnlockBoth(t)
    /\ Return(t, loc[t].count, loc[t].rbuf)
    /\ UNCHANGED <<fsvars, oftvars, inode_table_mutex, open_file_table_mutex,
                   open_file_table_cond, destroyed>>

(***************************************************************************)
(* The client programs' own steps                                          *)
(***************************************************************************)
\* pthread_join of every other thread (multithreaded_1.c:55-57,
\* state.c:976-978)
join(t) ==
    /\ \E o \in Calls(t) : o.op = "join" /\ ReturnAtEntry(t, o, 0)
    /\ \A u \in Threads \ {t} : Finished(u)
    /\ UNCHANGED <<fsvars, oftvars, lockvars, destroyed>>


(***************************************************************************)
(* The steps of a thread, by the call they belong to                       *)
(***************************************************************************)
\* tfs_open that creates the file or finds it created
CreateStep(t) ==
    \/ tfs_open(t)
    \/ create_in_dir_wrlock(t)
    \/ create_in_dir_body(t)
    \/ add_to_open_file_table_lock(t)
    \/ add_to_open_file_table_body(t)

\* tfs_open without TFS_O_CREAT
LookupStep(t) == find_in_dir_body(t)

\* tfs_open with TFS_O_TRUNC
ClearStep(t) ==
    \/ inode_clear_wrlock(t)
    \/ inode_clear_body(t)

CloseStep(t) ==
    \/ tfs_close(t)
    \/ remove_from_open_file_table_body(t)

WriteStep(t) ==
    \/ tfs_write(t)
    \/ write_lock_inode(t)
    \/ write_check(t)
    \/ write_block(t)
    \/ write_finish(t)

ReadStep(t) ==
    \/ tfs_read(t)
    \/ read_lock_inode(t)
    \/ read_check(t)
    \/ read_block(t)
    \/ read_finish(t)

(***************************************************************************)
(* The state after tfs_init, with the threads given the programs p         *)
(***************************************************************************)
NoMenu == [t \in Threads |-> {}]
NoBudget == [t \in Threads |-> 0]

InitState(p, m, n) ==
    /\ inode_table = tfs_init.s.it
    /\ free_inode_ts = tfs_init.s.fits
    /\ fs_data = tfs_init.s.fd
    /\ free_blocks = tfs_init.s.fb
    /\ dir_entry = tfs_init.s.de
    /\ open_file_table =
          [h \in Handles |->
              [of_inumber |-> 0, of_append |-> FALSE, of_offset |-> 0]]
    /\ free_open_file_entries = [h \in Handles |-> FREE]
    /\ open_file_count = 0
    /\ inode_lock_table = [i \in Inumbers |-> RwFree]
    /\ inode_table_mutex = NoThread
    /\ open_file_table_mutex = NoThread
    /\ of_mutex = [h \in Handles |-> NoThread]
    /\ open_file_table_cond = {}
    /\ destroyed = FALSE
    /\ pc = [t \in Threads |-> "idle"]
    /\ loc = [t \in Threads |-> IdleLoc]
    /\ prog = p
    /\ ip = [t \in Threads |-> 1]
    /\ res = [t \in Threads |-> <<>>]
    /\ menu = m
    /\ budget = n

(***************************************************************************)
(* The destroy barrier (the test at state.c:1016-1042).  The main thread   *)
(* opens one file for each worker and calls tfs_destroy_after_all_closed;  *)
(* each worker closes its handle, and may then open and close the file     *)
(* once more.                                                              *)
(***************************************************************************)
NameA == <<1>>
NameB == <<2>>
NameLong == <<1, 2>>

DestroyMainProg ==
    [w \in 1 .. NumWorkers |-> OpOpen(NameA, {TFS_O_CREAT})]
        \o <<OpDestroyAfterAllClosed>>

DestroyWorkerProgs(t) ==
    { <<OpCloseRef(<<Main, t - 1>>)>>,
      <<OpCloseRef(<<Main, t - 1>>), OpOpen(NameA, {TFS_O_CREAT}),
        OpCloseRef(<<t, 2>>)>> }

InitDestroy ==
    \E p \in [Threads -> UNION {DestroyWorkerProgs(t) : t \in Workers}
                            \cup {DestroyMainProg}] :
        /\ p[Main] = DestroyMainProg
        /\ \A t \in Workers : p[t] \in DestroyWorkerProgs(t)
        /\ InitState(p, NoMenu, NoBudget)

DestroyStep(t) ==
    \/ CreateStep(t)
    \/ CloseStep(t)
    \/ state_destroy_after_all_closed_lock(t)
    \/ cond_wait(t)
    \/ cond_wait_return(t)
    \/ state_destroy(t)

NextDestroy == \E t \in Threads : DestroyStep(t)

SpecDestroy == InitDestroy /\ [][NextDestroy]_vars

\* Every thread that can take a step eventually takes one: a thread is
\* stopped only by a lock it waits for or by pthread_cond_wait.
FairSpecDestroy ==
    SpecDestroy /\ \A t \in Threads : WF_vars(DestroyStep(t))

\* C1: state_destroy_after_all_closed goes on to state_destroy only when
\* open_file_count is 0 and no entry of the open file table is TAKEN.
C1_DestroyOnlyWhenAllClosed ==
    \A t \in Threads :
        pc[t] = "state_destroy" =>
            /\ open_file_count = 0
            /\ \A h \in Handles : free_open_file_entries[h] = FREE

\* C2: when open_file_count is 0 from some point on, the call of
\* tfs_destroy_after_all_closed returns (state_destroy has run).
C2_DestroyReturns ==
    ([]<>(open_file_count # 0)) \/ <>destroyed

(***************************************************************************)
(* Opening and closing.  Every thread makes up to MaxCalls calls, each     *)
(* chosen when it is made: tfs_open of one file, creating it, looking it   *)
(* up or truncating it, and tfs_close of any integer from -1 to            *)
(* MAX_OPEN_FILES.                                                         *)
(***************************************************************************)
MaxCalls == 2

OpenCloseMenu ==
    {OpOpen(NameA, f) : f \in {{}, {TFS_O_CREAT}, {TFS_O_TRUNC}}}
        \cup {OpClose(h) : h \in -1 .. MAX_OPEN_FILES}

InitOpenClose ==
    InitState([t \in Threads |-> <<>>], [t \in Threads |-> OpenCloseMenu],
              [t \in Threads |-> MaxCalls])

OpenCloseStep(t) ==
    \/ CreateStep(t)
    \/ LookupStep(t)
    \/ ClearStep(t)
    \/ CloseStep(t)

NextOpenClose == \E t \in Threads : OpenCloseStep(t)

SpecOpenClose == InitOpenClose /\ [][NextOpenClose]_vars

TakenEntries == {h \in Handles : free_open_file_entries[h] = TAKEN}

\* C9: whenever no thread holds the mutex of the open file table,
\* open_file_count is the number of TAKEN entries, and it is always between
\* 0 and MAX_OPEN_FILES.
C9_OpenCountIsTakenEntries ==
    /\ open_file_table_mutex = NoThread =>
            open_file_count = Cardinality(TakenEntries)
    /\ 0 <= open_file_count
    /\ open_file_count <= MAX_OPEN_FILES

\* C9 witness: the table is full, nobody holds its mutex, and an open has
\* just failed for want of a free entry.
C9_Witness ==
    /\ open_file_table_mutex = NoThread
    /\ open_file_count = MAX_OPEN_FILES
    /\ \E t \in Threads :
          pc[t] = "idle" /\ loc[t].op = "open" /\ loc[t].ret = -1

\* C10: a close succeeds exactly when its handle is in range and its entry
\* TAKEN; it then frees that entry alone and takes one from open_file_count.
\* Any other close returns -1 and leaves the table and the count as they
\* were.
C10_CloseSemantics ==
    [][\A t \in Threads :
          (pc[t] = "remove_from_open_file_table_body" /\ pc'[t] = "idle") =>
              LET h == loc[t].fh
              IN  IF h \in Handles /\ free_open_file_entries[h] = TAKEN
                  THEN /\ loc'[t].ret = 0
                       /\ free_open_file_entries' =
                              [free_open_file_entries EXCEPT ![h] = FREE]
                       /\ open_file_count' = open_file_count - 1
                  ELSE /\ loc'[t].ret = -1
                       /\ UNCHANGED <<free_open_file_entries,
                                      open_file_count, open_file_table>>]_vars

\* C10 witness: a close of a handle that had been opened and closed before
\* has returned -1.
C10_Witness ==
    \E t \in Threads :
        /\ pc[t] = "idle" /\ loc[t].op = "close" /\ loc[t].ret = -1
        /\ valid_file_handle(loc[t].fh)
        /\ free_open_file_entries[loc[t].fh] = FREE
        /\ open_file_table[loc[t].fh].of_inumber # ROOT_DIR_INUM

(***************************************************************************)
(* Creating.  Every thread opens two paths with TFS_O_CREAT, each either   *)
(* a name shorter than MAX_FILE_NAME or one of MAX_FILE_NAME characters,   *)
(* and closes nothing.                                                     *)
(***************************************************************************)
CreateNames == {NameA, NameLong}

CreateProgs ==
    {<<OpOpen(n1, {TFS_O_CREAT}), OpOpen(n2, {TFS_O_CREAT})>> :
        n1 \in CreateNames, n2 \in CreateNames}

InitCreate ==
    \E p \in [Threads -> CreateProgs] : InitState(p, NoMenu, NoBudget)

NextCreate == \E t \in Threads : CreateStep(t)

SpecCreate == InitCreate /\ [][NextCreate]_vars

\* The calls thread t has completed
Completed(t) == 1 .. Len(res[t])

\* C4: the handles that opens of one path with TFS_O_CREAT return, whatever
\* the length of the path and however the calls interleave, all refer to the
\* same i-node.
C4_CreateIdempotent ==
    \A t, u \in Threads : \A j \in Completed(t), k \in Completed(u) :
        ( /\ prog[t][j].name = prog[u][k].name
          /\ res[t][j] >= 0
          /\ res[u][k] >= 0 )
        => open_file_table[res[t][j]].of_inumber
              = open_file_table[res[u][k]].of_inumber

(***************************************************************************)
(* The bytes the client programs write: thread t writes, as the k-th byte  *)
(* of a buffer, a value no other thread writes and no other position of    *)
(* the buffer holds.                                                       *)
(***************************************************************************)
Byte(t, k) == 10 * t + k
Buf(t, n) == [k \in 1 .. n |-> Byte(t, k)]

\* The bytes of the file of i-node inumber, in order: byte p is found as
\* read_from_open_file finds it (state.c:865-886); -1 stands for a byte
\* whose block cannot be found.
FileContent(inumber) ==
    [p \in 1 .. inode_table[inumber].i_size |->
        LET b == inode_get_block_unsafe(FS, inumber, (p - 1) \div BLOCK_SIZE)
        IN  IF valid_block_number(b) THEN fs_data[b][(p - 1) % BLOCK_SIZE]
            ELSE -1]

(***************************************************************************)
(* Truncating under an open handle (the tests of src/unnamed/part_001 and  *)
(* part_002).  The main thread moves the offset of a handle A to k, either *)
(* by writing k bytes or, after writing MaxLen bytes through a handle it   *)
(* closes, by reading k bytes; it opens the file again with TFS_O_TRUNC,   *)
(* closes that handle or not, and reads or writes through A.  Meanwhile    *)
(* every worker creates and closes another file.                           *)
(***************************************************************************)
MaxLen == 3

TruncFinal(ref) == {OpReadRef(ref, MaxLen), OpWriteRef(ref, Buf(Main, 1))}

TruncTail(ref, b) ==
    {<<OpOpen(NameA, {TFS_O_TRUNC})>> \o c \o <<f>> :
        c \in {<<>>, <<OpCloseRef(<<Main, b>>)>>}, f \in TruncFinal(ref)}

TruncMainProgs ==
    UNION {
        {<<OpOpen(NameA, {TFS_O_CREAT}),
           OpWriteRef(<<Main, 1>>, Buf(Main, k))>> \o tl :
              tl \in TruncTail(<<Main, 1>>, 3)}
        \cup
        {<<OpOpen(NameA, {TFS_O_CREAT}),
           OpWriteRef(<<Main, 1>>, Buf(Main, MaxLen)),
           OpCloseRef(<<Main, 1>>),
           OpOpen(NameA, {}),
           OpReadRef(<<Main, 4>>, k)>> \o tl :
              tl \in TruncTail(<<Main, 4>>, 6)}
        : k \in 1 .. MaxLen }

TruncWorkerProg(t) ==
    <<OpOpen(NameB, {TFS_O_CREAT}), OpCloseRef(<<t, 1>>)>>

InitTruncate ==
    \E mp \in TruncMainProgs :
        InitState([t \in Threads |-> IF t = Main THEN mp
                                     ELSE TruncWorkerProg(t)],
                  NoMenu, NoBudget)

IOStep(t) ==
    \/ OpenCloseStep(t)
    \/ WriteStep(t)
    \/ ReadStep(t)

NextTruncate == \E t \in Threads : IOStep(t)

SpecTruncate == InitTruncate /\ [][NextTruncate]_vars

\* In the main thread's program: the open with TFS_O_TRUNC, the last call
\* (the read or write through A after it), the open that returned A, and
\* the read or write through A before the truncation
TruncIdx ==
    CHOOSE j \in 1 .. Len(prog[Main]) :
        prog[Main][j].op = "open" /\ TFS_O_TRUNC \in prog[Main][j].flags
LastIdx == Len(prog[Main])
HandleAIdx == prog[Main][LastIdx].ref[2]
FirstIOIdx ==
    CHOOSE j \in 1 .. TruncIdx :
        /\ prog[Main][j].ref = prog[Main][LastIdx].ref
        /\ prog[Main][j].op \in {"read", "write"}

\* The main thread has made all its calls, A and B were opened, and k >= 1
\* bytes went through A before B was opened
TruncatedUnderA ==
    /\ Len(res[Main]) = LastIdx
    /\ res[Main][HandleAIdx] >= 0
    /\ res[Main][FirstIOIdx] >= 1
    /\ res[Main][TruncIdx] >= 0

\* C3: after k >= 1 bytes were written or read through handle A (opened
\* without TFS_O_APPEND) and the file was opened with TFS_O_TRUNC through
\* another handle B, closed since or not, the next read or write through A
\* returns -1 and transfers nothing: the read buffer is untouched and the
\* file is still empty, with no block.
C3_TruncateInvalidatesHandle ==
    TruncatedUnderA =>
        LET inumber == open_file_table[res[Main][HandleAIdx]].of_inumber
        IN  /\ res[Main][LastIdx] = -1
            /\ loc[Main].rbuf = <<>>
            /\ inode_table[inumber].i_size = 0
            /\ inode_table[inumber].i_data_block_count = 0

\* C3 witness: the main thread had read bytes through A, truncated the file
\* through B, closed B, and its write through A has returned.
C3_Witness ==
    /\ TruncatedUnderA
    /\ prog[Main][FirstIOIdx].op = "read"
    /\ prog[Main][LastIdx - 1].op = "close"
    /\ prog[Main][LastIdx].op = "write"
    /\ res[Main][LastIdx - 1] = 0

(***************************************************************************)
(* Writing through one shared handle (tests/multithreaded_1.c).  The main  *)
(* thread creates a file; every worker writes the same number of bytes,    *)
(* from 1 to MaxLen, through the main thread's handle; the main thread     *)
(* joins them, closes the handle, opens the file again and reads it all.   *)
(***************************************************************************)
SharedMainProg ==
    <<OpOpen(NameA, {TFS_O_CREAT}), OpJoin, OpCloseRef(<<Main, 1>>),
      OpOpen(NameA, {}), OpReadRef(<<Main, 4>>, MAX_FILE_SIZE)>>

InitShared ==
    \E len \in 1 .. MaxLen :
        InitState([t \in Threads |->
                      IF t = Main THEN SharedMainProg
                      ELSE <<OpWriteRef(<<Main, 1>>, Buf(t, len))>>],
                  NoMenu, NoBudget)

SharedStep(t) ==
    \/ CreateStep(t)
    \/ LookupStep(t)
    \/ CloseStep(t)
    \/ WriteStep(t)
    \/ ReadStep(t)
    \/ join(t)

NextShared == \E t \in Threads : SharedStep(t)

SpecShared == InitShared /\ [][NextShared]_vars

\* The bytes s[from + 1] .. s[from + n] of a sequence
Region(s, from, n) == [k \in 1 .. n |-> s[from + k]]

\* The length of the workers' writes, and their total
SharedLen == Len(prog[Main + 1][1].buf)
SharedTotal == NumWorkers * SharedLen

\* Every worker's write has returned and the main thread has joined them
SharedWritesDone == Len(res[Main]) >= 2

\* C6: when the workers have each written SharedLen bytes through the one
\* handle of an empty file, and the total fits in a file, every write has
\* returned SharedLen, the size of the file is the total, each successive
\* region of SharedLen bytes holds the buffer of one worker, and the buffer
\* of every worker is in one of the regions; the main thread then reads
\* back what the file holds.
C6_SharedHandleWritesSerialized ==
    (SharedWritesDone /\ SharedTotal <= MAX_FILE_SIZE) =>
        LET inumber == open_file_table[res[Main][1]].of_inumber
            content == FileContent(inumber)
        IN  /\ \A w \in Workers : res[w] = <<SharedLen>>
            /\ inode_table[inumber].i_size = SharedTotal
            /\ \A r \in 0 .. (NumWorkers - 1) :
                  \E w \in Workers :
                      Region(content, r * SharedLen, SharedLen)
                          = prog[w][1].buf
            /\ \A w \in Workers :
                  \E r \in 0 .. (NumWorkers - 1) :
                      Region(content, r * SharedLen, SharedLen)
                          = prog[w][1].buf
            /\ Len(res[Main]) = Len(prog[Main]) =>
                  /\ res[Main][5] = SharedTotal
                  /\ loc[Main].rbuf = content

\* C6 witness: the workers' writes, which together cross the boundary
\* between the direct and the indirect blocks, are done and read back.
C6_Witness ==
    /\ Len(res[Main]) = Len(prog[Main])
    /\ SharedTotal <= MAX_FILE_SIZE
    /\ SharedTotal > INODE_DIRECT_REFS * BLOCK_SIZE
    /\ res[Main][5] = SharedTotal

(***************************************************************************)
(* Appending through several handles.  Every worker opens the same file    *)
(* with TFS_O_CREAT and TFS_O_APPEND, writes from 1 to MaxLen bytes        *)
(* through its handle, and closes it; the main thread joins the workers,   *)
(* opens the file and reads it all.                                        *)
(***************************************************************************)
AppendMainProg ==
    <<OpJoin, OpOpen(NameA, {}), OpReadRef(<<Main, 2>>, MAX_FILE_SIZE)>>

AppendWorkerProg(t, len) ==
    <<OpOpen(NameA, {TFS_O_CREAT, TFS_O_APPEND}),
      OpWriteRef(<<t, 1>>, Buf(t, len)), OpCloseRef(<<t, 1>>)>>

InitAppend ==
    \E len \in [Workers -> 1 .. MaxLen] :
        InitState([t \in Threads |->
                      IF t = Main THEN AppendMainProg
                      ELSE AppendWorkerProg(t, len[t])],
                  NoMenu, NoBudget)

AppendStep(t) ==
    \/ CreateStep(t)
    \/ LookupStep(t)
    \/ CloseStep(t)
    \/ WriteStep(t)
    \/ ReadStep(t)
    \/ join(t)

NextAppend == \E t \in Threads : AppendStep(t)

SpecAppend == InitAppend /\ [][NextAppend]_vars

\* The orders in which the workers' writes may have taken place
WriteOrders ==
    {f \in [1 .. NumWorkers -> Workers] :
        \A i, j \in 1 .. NumWorkers : f[i] = f[j] => i = j}

\* The buffers of the workers' writes, one after the other in order f
RECURSIVE ConcatBufs(_)
ConcatBufs(f) ==
    IF f = <<>> THEN <<>> ELSE prog[Head(f)][2].buf \o ConcatBufs(Tail(f))

AppendTotal == SeqSum([w \in 1 .. NumWorkers |-> Len(prog[Main + w][2].buf)])

\* C7: a write through a handle opened with TFS_O_APPEND starts at the size
\* the file has once the write holds the i-node's lock; when the workers
\* have each appended through a handle of their own and the total is at most
\* MAX_FILE_SIZE, every write has returned the length of its buffer and the
\* file holds the buffers one after the other in some order, which is what
\* the main thread then reads.
C7_AppendsDoNotOverlap ==
    /\ \A t \in Threads :
          (pc[t] = "write_block" /\ open_file_table[loc[t].fh].of_append) =>
              open_file_table[loc[t].fh].of_offset
                  = inode_table[loc[t].inode].i_size + loc[t].done
    /\ ( /\ Len(res[Main]) >= 1
         /\ AppendTotal <= MAX_FILE_SIZE
         /\ \A w \in Workers : res[w][1] >= 0 )
       => \E f \in WriteOrders :
             /\ \A w \in Workers : res[w][2] = Len(prog[w][2].buf)
             /\ \A i \in Inumbers :
                   (free_inode_ts[i] = TAKEN /\ i # ROOT_DIR_INUM)
                       => FileContent(i) = ConcatBufs(f)
             /\ Len(res[Main]) = Len(prog[Main]) =>
                   /\ res[Main][3] = AppendTotal
                   /\ loc[Main].rbuf = ConcatBufs(f)

\* C7 witness: the appended buffers fill the file up to MAX_FILE_SIZE, and
\* the main thread has read them back.
C7_Witness ==
    /\ Len(res[Main]) = Len(prog[Main])
    /\ \A w \in Workers : res[w][1] >= 0
    /\ AppendTotal > INODE_DIRECT_REFS * BLOCK_SIZE
    /\ AppendTotal <= MAX_FILE_SIZE
    /\ res[Main][3] = AppendTotal

(***************************************************************************)
(* A file for each thread (the test at state.c:903-984).  Every worker     *)
(* opens a file of its own with TFS_O_CREAT, or, having written to the     *)
(* file before, with TFS_O_CREAT and TFS_O_TRUNC; it writes a buffer,      *)
(* closes the handle, opens the file again, reads as many bytes as it      *)
(* wrote, and closes.  The buffer written to a new file is a byte longer   *)
(* than the direct blocks hold; the one written to a truncated file is of  *)
(* MAX_FILE_SIZE bytes.                                                    *)
(***************************************************************************)
FileOf(t) == <<t>>

RoundTripLen == INODE_DIRECT_REFS * BLOCK_SIZE + 1

\* Write n bytes through the handle of call i, close it, open the file and
\* read n bytes back
RoundTrip(t, i, n) ==
    <<OpWriteRef(<<t, i>>, Buf(t, n)), OpCloseRef(<<t, i>>),
      OpOpen(FileOf(t), {}), OpReadRef(<<t, i + 3>>, n),
      OpCloseRef(<<t, i + 3>>)>>

FilesProgs(t) ==
    {<<OpOpen(FileOf(t), {TFS_O_CREAT})>> \o RoundTrip(t, 1, RoundTripLen),
     <<OpOpen(FileOf(t), {TFS_O_CREAT}),
       OpWriteRef(<<t, 1>>, Buf(t, 1)), OpCloseRef(<<t, 1>>),
       OpOpen(FileOf(t), {TFS_O_CREAT, TFS_O_TRUNC})>>
         \o RoundTrip(t, 4, MAX_FILE_SIZE)}

InitFiles ==
    \E p \in [Threads -> UNION {FilesProgs(t) : t \in Workers} \cup {<<>>}] :
        /\ p[Main] = <<>>
        /\ \A t \in Workers : p[t] \in FilesProgs(t)
        /\ InitState(p, NoMenu, NoBudget)

NextFiles == \E t \in Threads : IOStep(t)

SpecFiles == InitFiles /\ [][NextFiles]_vars

\* In the program of worker t: the read, the write it reads back and the
\* open the write goes through
ReadIdx(t) == Len(prog[t]) - 1
WriteIdx(t) == ReadIdx(t) - 3
OpenIdx(t) == ReadIdx(t) - 4

\* The read of worker t has just returned, after a write that returned the
\* length of its buffer, a close, and an open that gave a handle
ReadBack(t) ==
    /\ pc[t] = "idle"
    /\ Len(res[t]) = ReadIdx(t)
    /\ res[t][OpenIdx(t)] >= 0
    /\ res[t][WriteIdx(t)] = Len(prog[t][WriteIdx(t)].buf)
    /\ res[t][WriteIdx(t) + 1] = 0
    /\ res[t][ReadIdx(t) - 1] >= 0

\* C8: after a write of N bytes to a new or truncated file that returned N
\* and the close of its handle, a read of N bytes through a fresh handle
\* returns N and gives the bytes written, in order.
C8_WriteReadRoundTrip ==
    \A t \in Workers :
        ReadBack(t) =>
            /\ res[t][ReadIdx(t)] = Len(prog[t][WriteIdx(t)].buf)
            /\ loc[t].rbuf = prog[t][WriteIdx(t)].buf

\* C8 witness: a worker has read back MAX_FILE_SIZE bytes, which it wrote to
\* a file it had truncated.
C8_Witness ==
    \E t \in Workers :
        /\ ReadBack(t)
        /\ TFS_O_TRUNC \in prog[t][OpenIdx(t)].flags
        /\ res[t][ReadIdx(t)] = MAX_FILE_SIZE

\* The blocks i-node i refers to, in order: the direct blocks, the blocks
\* the indirect block lists, and the indirect block itself when
\* i_data_block_count is above INODE_DIRECT_REFS
InodeBlocks(i) ==
    LET n == inode_table[i].i_data_block_count
    IN  [k \in 1 .. n |-> inode_get_block_unsafe(FS, i, k - 1)]
           \o (IF n > INODE_DIRECT_REFS
               THEN <<inode_table[i].i_data_extension_block>> ELSE <<>>)

\* The references of the TAKEN i-nodes from i-node i on, one after the other
RECURSIVE BlockRefs(_)
BlockRefs(i) ==
    IF ~valid_inumber(i) THEN <<>>
    ELSE (IF free_inode_ts[i] = TAKEN THEN InodeBlocks(i) ELSE <<>>)
            \o BlockRefs(i + 1)

\* No read, write, truncation or creation is in progress
Quiescent ==
    \A t \in Threads :
        pc[t] \in {"idle", "find_in_dir_body", "add_to_open_file_table",
                   "add_to_open_file_table_body",
                   "remove_from_open_file_table_body"}

\* C5: whenever no read, write, truncation or creation is in progress, no
\* block is referred to twice by the TAKEN i-nodes, and the blocks they
\* refer to are the blocks marked TAKEN; and a thread that reads back the
\* file that only it writes gets only bytes that it wrote.
C5_BlockOwnership ==
    /\ Quiescent =>
          LET refs == BlockRefs(0)
          IN  /\ \A k1, k2 \in 1 .. Len(refs) :
                    refs[k1] = refs[k2] => k1 = k2
              /\ {refs[k] : k \in 1 .. Len(refs)}
                    = {b \in Blocks : free_blocks[b] = TAKEN}
    /\ \A t \in Workers : \A k \in 1 .. Len(loc[t].rbuf) :
          \E j \in 1 .. MAX_FILE_SIZE : loc[t].rbuf[k] = Byte(t, j)

\* C5 witness: nothing is in progress while two files have blocks, one of
\* them an indirect block, and a worker has bytes it read back.
C5_Witness ==
    /\ Quiescent
    /\ \E i, j \in Inumbers \ {ROOT_DIR_INUM} :
          /\ i # j
          /\ free_inode_ts[i] = TAKEN /\ free_inode_ts[j] = TAKEN
          /\ inode_table[i].i_data_block_count > INODE_DIRECT_REFS
          /\ inode_table[j].i_data_block_count > 0
    /\ \E t \in Workers : loc[t].rbuf # <<>>

(***************************************************************************)
(* Mixed use of two files.  The main thread creates two files and then     *)
(* writes BLOCK_SIZE + 1 bytes through a handle of its choice.  Every      *)
(* worker makes up to MaxCalls calls, each chosen when it is made: the     *)
(* workers with an even number write MAX_FILE_SIZE bytes and open the      *)
(* first file with TFS_O_TRUNC, the others read and close.  The data       *)
(* blocks do not suffice for both files at full size, so that writes fail  *)
(* part-way.                                                               *)
(***************************************************************************)
MixMainProg == <<OpOpen(NameA, {TFS_O_CREAT}), OpOpen(NameB, {TFS_O_CREAT})>>

MixMenu(t) ==
    IF t = Main
    THEN {OpWrite(h, Buf(t, BLOCK_SIZE + 1)) : h \in Handles}
    ELSE IF t % 2 = 0
    THEN {OpWrite(h, Buf(t, MAX_FILE_SIZE)) : h \in Handles}
            \cup {OpOpen(NameA, {TFS_O_TRUNC})}
    ELSE {OpRead(h, MaxLen) : h \in Handles}
            \cup {OpClose(h) : h \in Handles}

InitMix ==
    InitState([t \in Threads |-> IF t = Main THEN MixMainProg ELSE <<>>],
              [t \in Threads |-> MixMenu(t)],
              [t \in Threads |-> IF t = Main THEN 1 ELSE MaxCalls])

NextMix == \E t \in Threads : IOStep(t)

SpecMix == InitMix /\ [][NextMix]_vars

\* The threads in the middle of a write to i-node i or of its truncation
WritersOf(i) ==
    {t \in Threads :
        \/ pc[t] \in {"write_check", "write_block"} /\ loc[t].inode = i
        \/ pc[t] = "inode_clear_body" /\ loc[t].inum = i}

C14_TruncateFreesOwnBlocks ==
    [][\A t \in Threads :
          (pc[t] = "inode_clear_body" /\ pc'[t] # "inode_clear_body") =>
              LET i == loc[t].inum
                  refs == InodeBlocks(i)
                  own == {refs[k] : k \in 1 .. Len(refs)}
              IN  /\ pc'[t] = "add_to_open_file_table"
                  /\ inode_table'[i].i_size = 0
                  /\ inode_table'[i].i_data_block_count = 0
                  /\ free_blocks' = [b \in Blocks |->
                                        IF b \in own THEN FREE
                                        ELSE free_blocks[b]]
                  /\ free_inode_ts[i] = TAKEN
                  /\ free_inode_ts' = free_inode_ts
                  /\ dir_entry' = dir_entry
                  /\ \A j \in Inumbers \ {i} :
                        inode_table'[j] = inode_table[j]]_vars

\* C14 witness: a file that had an indirect block has just been truncated,
\* its indirect block is FREE, and another file still has its blocks.
C14_Witness ==
    \E t \in Threads :
        /\ pc[t] = "add_to_open_file_table"
        /\ TFS_O_TRUNC \in loc[t].flags
        /\ inode_table[loc[t].inum].i_data_block_count = 0
        /\ inode_table[loc[t].inum].i_data_extension_block # 0
        /\ free_blocks[inode_table[loc[t].inum].i_data_extension_block] = FREE
        /\ \E j \in Inumbers \ {ROOT_DIR_INUM, loc[t].inum} :
              /\ free_inode_ts[j] = TAKEN
              /\ inode_table[j].i_data_block_count > 0
              /\ free_blocks[inode_table[j].i_data_block[0]] = TAKEN

(***************************************************************************)
(* The locks held and awaited by the threads of SpecMix                    *)
(***************************************************************************)
InCall(t) == pc[t] # "idle"

\* The threads that hold the lock of i-node i, and the one that holds a
\* mutex
RwHolders(i) ==
    {u \in Threads : inode_lock_table[i].w = u \/ u \in inode_lock_table[i].r}
RwWriters(i) == {u \in Threads : inode_lock_table[i].w = u}
MutexHolder(m) == IF m = NoThread THEN {} ELSE {m}
HeldRwlocks(t) == {i \in Inumbers : t \in RwHolders(i)}
HeldOfMutexes(t) == {h \in Handles : of_mutex[h] = t}

\* The threads that hold the lock thread t is about to take inside its
\* call
WaitsOn(t) ==
    CASE pc[t] = "create_in_dir_wrlock" -> RwHolders(ROOT_DIR_INUM)
      [] pc[t] = "inode_clear" /\ valid_inumber(loc[t].inum) ->
            RwHolders(loc[t].inum)
      [] pc[t] = "add_to_open_file_table" ->
            MutexHolder(open_file_table_mutex)
      [] pc[t] = "write_wrlock" ->
            RwHolders(open_file_table[loc[t].fh].of_inumber)
      [] pc[t] = "read_rdlock" ->
            RwWriters(open_file_table[loc[t].fh].of_inumber)
      [] OTHER -> {}

\* Whether the lock thread t is about to take inside its call is free for
\* it, by the guard of the step that takes it
CanAcquire(t) ==
    CASE pc[t] = "create_in_dir_wrlock" ->
            CanWrlock(inode_lock_table[ROOT_DIR_INUM])
      [] pc[t] = "inode_clear" /\ valid_inumber(loc[t].inum) ->
            CanWrlock(inode_lock_table[loc[t].inum])
      [] pc[t] = "add_to_open_file_table" -> open_file_table_mutex = NoThread
      [] pc[t] = "write_wrlock" ->
            CanWrlock(inode_lock_table[
                         open_file_table[loc[t].fh].of_inumber])
      [] pc[t] = "read_rdlock" ->
            CanRdlock(inode_lock_table[
                         open_file_table[loc[t].fh].of_inumber])
      [] OTHER -> TRUE

\* The threads t waits on, directly or through n more threads
RECURSIVE WaitsOnWithin(_, _)
WaitsOnWithin(t, n) ==
    IF n = 0 THEN WaitsOn(t)
    ELSE WaitsOn(t) \cup UNION {WaitsOnWithin(u, n - 1) : u \in WaitsOn(t)}

ReadersOf(i) ==
    {t \in Threads : /\ pc[t] \in {"read_check", "read_block"}
                     /\ loc[t].inode = i}

C21_FailedWriteRaisesSize ==
    [][\A t \in Threads :
          ( /\ pc[t] = "write_block"
            /\ pc'[t] = "idle"
            /\ loc'[t].ret = -1 )
          => inode_table'[loc[t].inode].i_size
                = open_file_table'[loc[t].fh].of_offset]_vars

\* C22 as stated: whenever no read, write, truncation or creation is in
\* progress, a TAKEN i-node with at most INODE_DIRECT_REFS blocks names no
\* indirect block: i_data_extension_block is -1, which a failed allocation
\* leaves, or still 0, the value of the static table that no extension has
\* assigned yet.
C22_IndirectRefUnset ==
    Quiescent =>
        \A i \in Inumbers :
            ( /\ free_inode_ts[i] = TAKEN
              /\ inode_table[i].i_data_block_count <= INODE_DIRECT_REFS )
            => inode_table[i].i_data_extension_block \in {-1, 0}

\* The file system with the blocks above block m taken too, as by files the
\* two names of the model leave out
WithBlocksTaken(s, m) ==
    [s EXCEPT !.fb = [b \in Blocks |-> IF b > m THEN TAKEN ELSE s.fb[b]]]

\* The blocks marked TAKEN in bitmap fb
TakenBlocks(fb) == {b \in Blocks : fb[b] = TAKEN}

\* C23: in every reachable state of the file system, with any number of
\* further blocks taken, inode_extend_unsafe on a TAKEN i-node either returns
\* a block, having added one to i_data_block_count, or returns -1 and leaves
\* i_data_block_count and the set of TAKEN blocks as they were; and a turn of
\* the write loop that returns -1 leaves both as they were.
C23_ExtendAllOrNothing ==
    /\ [](\A m \in Blocks : \A i \in Inumbers :
            free_inode_ts[i] = TAKEN =>
                LET s == WithBlocksTaken(FS, m)
                    e == inode_extend_unsafe(s, i)
                IN  IF e.ret = -1
                    THEN /\ e.s.it[i].i_data_block_count
                               = s.it[i].i_data_block_count
                         /\ TakenBlocks(e.s.fb) = TakenBlocks(s.fb)
                         /\ \/ TakenBlocks(s.fb) = Blocks
                            \/ /\ s.it[i].i_data_block_count
                                     = INODE_DIRECT_REFS
                               /\ Cardinality(TakenBlocks(s.fb))
                                     = DATA_BLOCKS - 1
                            \/ s.it[i].i_data_block_count
                                  = INODE_DIRECT_REFS + MAX_INDIRECT_REFS
                    ELSE /\ e.s.it[i].i_data_block_count
                               = s.it[i].i_data_block_count + 1
                         /\ e.ret \in TakenBlocks(e.s.fb) \ TakenBlocks(s.fb))
    /\ [][\A t \in Threads :
            ( /\ pc[t] = "write_block"
              /\ pc'[t] = "idle"
              /\ loc'[t].ret = -1 )
            => /\ inode_table'[loc[t].inode].i_data_block_count
                     = inode_table[loc[t].inode].i_data_block_count
               /\ free_blocks' = free_blocks]_vars

\* C23 witness: a write has returned -1 with no block left, one file is as
\* long as a file can be (an extension of it fails whatever blocks are free)
\* and the other has INODE_DIRECT_REFS blocks at most.
C23_Witness ==
    \E t \in Threads : \E i, j \in Inumbers \ {ROOT_DIR_INUM} :
        /\ pc[t] = "idle"
        /\ loc[t].op = "write"
        /\ loc[t].ret = -1
        /\ TakenBlocks(free_blocks) = Blocks
        /\ free_inode_ts[i] = TAKEN
        /\ inode_table[i].i_data_block_count
              = INODE_DIRECT_REFS + MAX_INDIRECT_REFS
        /\ free_inode_ts[j] = TAKEN
        /\ inode_table[j].i_data_block_count <= INODE_DIRECT_REFS
        /\ inode_extend_unsafe(FS, i).ret = -1

(***************************************************************************)
(* One file used by one thread.  The main thread creates a file, writes    *)
(* twice through the handle, closes it, opens the file again (truncating   *)
(* it or not), reads twice and writes once more; the lengths are taken     *)
(* from sets that hold 0, one byte, whole blocks, the capacity of a file   *)
(* and more.  Meanwhile every worker with an even number creates a second  *)
(* file and writes one byte to it, which leaves the first file the blocks  *)
(* for its full size.                                                      *)
(***************************************************************************)
SeqProg(n1, n2, f, l1, l2, n3) ==
    <<OpOpen(NameA, {TFS_O_CREAT}),
      OpWriteRef(<<Main, 1>>, Buf(Main, n1)),
      OpWriteRef(<<Main, 1>>, Buf(Main, n2)),
      OpCloseRef(<<Main, 1>>),
      OpOpen(NameA, f),
      OpReadRef(<<Main, 5>>, l1),
      OpReadRef(<<Main, 5>>, l2),
      OpWriteRef(<<Main, 5>>, Buf(Main, n3))>>

SeqMainProgs ==
    {SeqProg(n1, n2, f, l1, l2, n3) :
        n1 \in {0, INODE_DIRECT_REFS * BLOCK_SIZE, MAX_FILE_SIZE,
                MAX_FILE_SIZE + 1},
        n2 \in {0, 1, BLOCK_SIZE * (INODE_DIRECT_REFS + 1)},
        f \in {{}, {TFS_O_TRUNC}},
        l1 \in {0, MaxLen, MAX_FILE_SIZE + 1},
        l2 \in {1},
        n3 \in {1}}

SeqWorkerProg(t) ==
    IF t % 2 = 0
    THEN <<OpOpen(NameB, {TFS_O_CREAT}), OpWriteRef(<<t, 1>>, Buf(t, 1))>>
    ELSE <<>>

InitSeq ==
    \E mp \in SeqMainProgs :
        InitState([t \in Threads |-> IF t = Main THEN mp
                                     ELSE SeqWorkerProg(t)],
                  NoMenu, NoBudget)

NextSeq == \E t \in Threads : IOStep(t)

SpecSeq == InitSeq /\ [][NextSeq]_vars

\* The offset of the handle of the main thread's call k before that call:
\* the bytes its earlier reads and writes through the handle transferred
SeqOffset(k) ==
    SeqSum([j \in 1 .. (k - 1) |->
               IF /\ prog[Main][j].ref = prog[Main][k].ref
                  /\ prog[Main][j].op \in {"read", "write"}
               THEN res[Main][j] ELSE 0])

\* The size of the main thread's file when it reads: what the two writes
\* wrote, or nothing after a truncation
SeqSizeAtRead ==
    IF TFS_O_TRUNC \in prog[Main][5].flags THEN 0
    ELSE res[Main][2] + res[Main][3]

\* Thread t takes the step
StepOf(t) == pc'[t] # pc[t] \/ loc'[t] # loc[t]

C13_ReadSemantics ==
    /\ [](\A k \in 1 .. Len(res[Main]) :
            prog[Main][k].op = "read" =>
                /\ res[Main][k] = Min(prog[Main][k].len,
                                      SeqSizeAtRead - SeqOffset(k))
                /\ (pc[Main] = "idle" /\ ip[Main] = k + 1) =>
                      /\ open_file_table[res[Main][5]].of_offset
                            = SeqOffset(k) + res[Main][k]
                      /\ Len(loc[Main].rbuf) = res[Main][k])
    /\ [][\A t \in Threads :
            (StepOf(t) /\ pc[t] \in {"read_rdlock", "read_check", "read_block"})
            => /\ inode_table' = inode_table
               /\ free_blocks' = free_blocks
               /\ fs_data' = fs_data]_vars

\* C13 witness: the main thread's first read returned fewer bytes than it
\* asked for, all that the file held, and its second read, at the end of
\* the file, returned 0.
C13_Witness ==
    /\ Len(res[Main]) >= 7
    /\ res[Main][6] > 0
    /\ res[Main][6] < prog[Main][6].len
    /\ res[Main][6] = inode_table[open_file_table[res[Main][5]].of_inumber].i_size
    /\ res[Main][7] = 0

\* The i-node of the main thread's file, found through the directory
SeqInode == find_in_dir_unsafe(FS, ROOT_DIR_INUM, NameA)

\* C15: a turn of the write loop extends the i-node by at most one block;
\* the extension from INODE_DIRECT_REFS to INODE_DIRECT_REFS + 1 blocks
\* allocates the indirect block besides the new block, and every other
\* extension allocates the new block alone and leaves the reference to the
\* indirect block as it was.  A write that starts with INODE_DIRECT_REFS
\* blocks and needs more returns its (clamped) length, and until the file
\* is opened again it holds the bytes of both writes in order.
C15_IndirectBlockAllocatedOnce ==
    /\ [][\A t \in Threads :
            (pc[t] = "write_block" /\ StepOf(t)) =>
                LET i == open_file_table[loc[t].fh].of_inumber
                    bc == inode_table[i].i_data_block_count
                    new == {b \in Blocks : /\ free_blocks[b] = FREE
                                           /\ free_blocks'[b] = TAKEN}
                IN  IF inode_table'[i].i_data_block_count = bc
                    THEN new = {}
                    ELSE /\ inode_table'[i].i_data_block_count = bc + 1
                         /\ IF bc = INODE_DIRECT_REFS
                            THEN /\ Cardinality(new) = 2
                                 /\ inode_table'[i].i_data_extension_block
                                       \in new
                            ELSE /\ Cardinality(new) = 1
                                 /\ inode_table'[i].i_data_extension_block
                                       = inode_table[i].i_data_extension_block
                                 /\ inode_table'[i].i_data_extension_block
                                       \notin new]_vars
    /\ []( ( /\ Len(res[Main]) >= 3
             /\ res[Main][2] = INODE_DIRECT_REFS * BLOCK_SIZE ) =>
               /\ res[Main][3] = Min(Len(prog[Main][3].buf),
                                     MAX_FILE_SIZE - res[Main][2])
               /\ (ip[Main] = 4 \/ (ip[Main] = 5 /\ pc[Main] = "idle")) =>
                     FileContent(SeqInode)
                        = prog[Main][2].buf
                             \o SubSeq(prog[Main][3].buf, 1, res[Main][3]) )

\* C15 witness: the main thread's first write filled the direct blocks and
\* its second write filled every block the indirect block can list.
C15_Witness ==
    /\ Len(res[Main]) >= 3
    /\ res[Main][2] = INODE_DIRECT_REFS * BLOCK_SIZE
    /\ res[Main][3] = MAX_INDIRECT_REFS * BLOCK_SIZE
    /\ ip[Main] = 4
    /\ inode_table[SeqInode].i_data_block_count
          = INODE_DIRECT_REFS + MAX_INDIRECT_REFS

(***************************************************************************)
(* Writes of no bytes.  The main thread creates a file, writes no bytes    *)
(* and closes it; it opens the file again, writes 0, 1 or BLOCK_SIZE + 1   *)
(* bytes, opens the file once more with TFS_O_TRUNC and writes no bytes    *)
(* through the handle of the second open.  Meanwhile every other worker    *)
(* writes a byte to another file and reads it back.                        *)
(***************************************************************************)
EmptyMainProg(n) ==
    <<OpOpen(NameA, {TFS_O_CREAT}),
      OpWriteRef(<<Main, 1>>, <<>>),
      OpCloseRef(<<Main, 1>>),
      OpOpen(NameA, {}),
      OpWriteRef(<<Main, 4>>, Buf(Main, n)),
      OpOpen(NameA, {TFS_O_TRUNC}),
      OpWriteRef(<<Main, 4>>, <<>>)>>

EmptyWorkerProg(t) ==
    IF t % 2 = 0
    THEN <<OpOpen(NameB, {TFS_O_CREAT}),
           OpWriteRef(<<t, 1>>, Buf(t, 1)),
           OpCloseRef(<<t, 1>>),
           OpOpen(NameB, {}),
           OpReadRef(<<t, 4>>, MaxLen)>>
    ELSE <<>>

InitEmpty ==
    \E n \in {0, 1, BLOCK_SIZE + 1} :
        InitState([t \in Threads |-> IF t = Main THEN EmptyMainProg(n)
                                     ELSE EmptyWorkerProg(t)],
                  NoMenu, NoBudget)

NextEmpty == \E t \in Threads : IOStep(t)

SpecEmpty == InitEmpty /\ [][NextEmpty]_vars

\* A step of thread t inside a write of no bytes, and such a step that
\* returns
EmptyWriteStep(t) ==
    /\ StepOf(t)
    /\ pc[t] \in {"write_wrlock", "write_check", "write_block"}
    /\ loc[t].buf = <<>>
EmptyWriteReturn(t) == EmptyWriteStep(t) /\ pc'[t] = "idle"

\* C16 as stated: a write of no bytes returns 0 and none of its steps
\* changes the i-nodes or the bitmap of the blocks.
C16_EmptyWriteReturnsZero ==
    [][\A t \in Threads :
          /\ EmptyWriteStep(t) => /\ inode_table' = inode_table
                                  /\ free_blocks' = free_blocks
          /\ EmptyWriteReturn(t) => loc'[t].ret = 0]_vars

\* C16, amended: a write of no bytes returns 0 when the offset of the handle
\* is not past the size of the file, and -1 when it is (the file was
\* truncated through another handle); none of its steps changes the i-nodes
\* or the bitmap of the blocks; a new file to which no bytes were written
\* has i_size 0 and i_data_block_count 0, also after it is closed.
C16_EmptyWrite ==
    /\ [][\A t \in Threads :
            /\ EmptyWriteStep(t) => /\ inode_table' = inode_table
                                    /\ free_blocks' = free_blocks
            /\ EmptyWriteReturn(t) =>
                  loc'[t].ret =
                     IF open_file_table'[loc[t].fh].of_offset
                           > inode_table[loc[t].inode].i_size
                     THEN -1 ELSE 0]_vars
    /\ []( ( /\ Len(res[Main]) >= 2
             /\ (ip[Main] <= 4 \/ (ip[Main] = 5 /\ pc[Main] = "idle")) ) =>
               /\ res[Main][2] = 0
               /\ inode_table[SeqInode].i_size = 0
               /\ inode_table[SeqInode].i_data_block_count = 0 )

\* C16 witness: the main thread wrote no bytes to the new file and closed
\* it, wrote no bytes twice more, the last time after the truncation, and
\* got 0 each time, while the other file has a block.
C16_Witness ==
    /\ Len(res[Main]) = 7
    /\ prog[Main][5].buf = <<>>
    /\ res[Main][2] = 0
    /\ res[Main][3] = 0
    /\ res[Main][7] = 0
    /\ \E b \in Blocks \ {0} : free_blocks[b] = TAKEN

(***************************************************************************)
(* A handle closed and opened again while it is in use.  The main thread   *)
(* creates a file and writes BLOCK_SIZE + 1 bytes through its handle; one  *)
(* worker closes that handle, whenever it likes once it exists, and opens  *)
(* another file, which takes the first free entry; another worker opens    *)
(* the first file with TFS_O_TRUNC and reads through the main thread's     *)
(* handle.                                                                 *)
(***************************************************************************)
ReopenProg(t) ==
    IF t = Main
    THEN <<OpOpen(NameA, {TFS_O_CREAT}),
           OpWriteRef(<<Main, 1>>, Buf(Main, BLOCK_SIZE + 1))>>
    ELSE IF t % 2 = 0
    THEN <<OpCloseRef(<<Main, 1>>), OpOpen(NameB, {TFS_O_CREAT})>>
    ELSE <<OpOpen(NameA, {TFS_O_TRUNC}), OpReadRef(<<Main, 1>>, MaxLen)>>

InitReopen == InitState([t \in Threads |-> ReopenProg(t)], NoMenu, NoBudget)

NextReopen == \E t \in Threads : IOStep(t)

SpecReopen == InitReopen /\ [][NextReopen]_vars

\* Thread t is inside a read or a write and holds the lock of the i-node it
\* found in the entry at the start
InTransfer(t) ==
    pc[t] \in {"write_check", "write_block", "read_check", "read_block"}

\* C19 as stated: while the mutex of an entry is held, only its holder
\* changes the i-number, the append flag and the offset of the entry; a
\* thread inside a read or a write finds in the entry the i-number of the
\* i-node it locked, and when it returns it holds the lock of that i-node no
\* more.
C19_HandleFieldsUnderEntryMutex ==
    /\ [][\A h \in Handles :
            (of_mutex[h] # NoThread /\ open_file_table'[h] # open_file_table[h])
                => StepOf(of_mutex[h])]_vars
    /\ [](\A t \in Threads :
            InTransfer(t) =>
                open_file_table[loc[t].fh].of_inumber = loc[t].inode)
    /\ [][\A t \in Threads :
            (InTransfer(t) /\ pc'[t] = "idle") =>
                /\ inode_lock_table'[loc[t].inode].w # t
                /\ t \notin inode_lock_table'[loc[t].inode].r]_vars

(***************************************************************************)
(* Handles that are not open.  The main thread creates a file, writes to   *)
(* it and closes it, opens it again, reads a byte and closes it, opens it  *)
(* with TFS_O_TRUNC and closes it; it then writes through the handle it    *)
(* closed first, reads through a handle no open ever returned, and reads   *)
(* and writes through handles out of range.  The workers, which open       *)
(* nothing, read and write through the main thread's handles.              *)
(***************************************************************************)
NotOpenMainProg ==
    <<OpOpen(NameA, {TFS_O_CREAT}),
      OpWriteRef(<<Main, 1>>, Buf(Main, BLOCK_SIZE + 1)),
      OpCloseRef(<<Main, 1>>),
      OpOpen(NameA, {}),
      OpReadRef(<<Main, 4>>, 1),
      OpCloseRef(<<Main, 4>>),
      OpOpen(NameA, {TFS_O_TRUNC}),
      OpCloseRef(<<Main, 7>>),
      OpWriteRef(<<Main, 1>>, Buf(Main, 1)),
      OpRead(MAX_OPEN_FILES - 1, MaxLen),
      OpRead(MAX_OPEN_FILES, 1),
      OpWrite(-1, Buf(Main, 1))>>

NotOpenWorkerProg(t) ==
    IF t % 2 = 0 THEN <<OpReadRef(<<Main, 4>>, MaxLen)>>
    ELSE <<OpWriteRef(<<Main, 7>>, Buf(t, 1))>>

InitNotOpen ==
    InitState([t \in Threads |-> IF t = Main THEN NotOpenMainProg
                                 ELSE NotOpenWorkerProg(t)],
              NoMenu, NoBudget)

NextNotOpen == \E t \in Threads : IOStep(t)

SpecNotOpen == InitNotOpen /\ [][NextNotOpen]_vars

\* Before its call k the main thread, the only thread that opens, has
\* closed every handle it got
AllClosedBefore(k) ==
    \A j \in 1 .. (k - 1) :
        (prog[Main][j].op = "open" /\ res[Main][j] >= 0) =>
            \E c \in (j + 1) .. (k - 1) :
                /\ prog[Main][c].op = "close"
                /\ prog[Main][c].ref = <<Main, j>>
                /\ res[Main][c] = 0

\* C20 as stated: a read or a write of the main thread made when no handle
\* is open returns -1, and none of its steps changes the file system or the
\* open file table.
C20_NotOpenHandleFails ==
    /\ [](\A k \in 1 .. Len(res[Main]) :
            (prog[Main][k].op \in {"read", "write"} /\ AllClosedBefore(k))
                => res[Main][k] = -1)
    /\ [][( /\ ip[Main] <= Len(prog[Main])
            /\ prog[Main][ip[Main]].op \in {"read", "write"}
            /\ AllClosedBefore(ip[Main])
            /\ StepOf(Main) )
          => UNCHANGED <<fsvars, oftvars>>]_vars

(***************************************************************************)
(* A full open file table and a full directory.  The main thread opens a   *)
(* new file three times, which fills the open file table unless a worker   *)
(* holds an entry, and creates a second file; it closes one of its         *)
(* handles, opens the second file with TFS_O_TRUNC, and creates a third    *)
(* file in the directory, which has MAX_DIR_ENTRIES entries.  Meanwhile    *)
(* every other worker opens and closes the first file, and the others      *)
(* look the second file up.                                                *)
(***************************************************************************)
NameC == <<3>>

FullMainProg(f2, f3, c) ==
    <<OpOpen(NameA, {TFS_O_CREAT}),
      OpOpen(NameA, f2),
      OpOpen(NameA, f3),
      OpOpen(NameB, {TFS_O_CREAT}),
      OpCloseRef(<<Main, c>>),
      OpOpen(NameB, {TFS_O_TRUNC}),
      OpOpen(NameC, {TFS_O_CREAT})>>

FullMainProgs ==
    {FullMainProg(f2, f3, c) :
        f2 \in {{}, {TFS_O_APPEND}}, f3 \in {{}, {TFS_O_CREAT}}, c \in 1 .. 3}

FullWorkerProg(t) ==
    IF t % 2 = 0 THEN <<OpOpen(NameA, {}), OpCloseRef(<<t, 1>>)>>
    ELSE <<OpOpen(NameB, {})>>

InitFull ==
    \E mp \in FullMainProgs :
        InitState([t \in Threads |-> IF t = Main THEN mp
                                     ELSE FullWorkerProg(t)],
                  NoMenu, NoBudget)

NextFull == \E t \in Threads : OpenCloseStep(t)

SpecFull == InitFull /\ [][NextFull]_vars

\* The entries of the root directory that refer to i-node i
EntriesOf(i) == {k \in DirSlots : dir_entry[k].d_inumber = i}

\* C24 as stated: when create_in_dir returns -1 the file system is as it was
\* before, no i-node has become TAKEN, and every TAKEN i-node but the root
\* directory's is referred to by exactly one entry of the root directory.
C24_FullDirectoryChangesNothing ==
    /\ [][\A t \in Threads :
            ( /\ pc[t] = "create_in_dir_body"
              /\ pc'[t] = "idle"
              /\ loc'[t].ret = -1 )
            => UNCHANGED fsvars]_vars
    /\ [](\A i \in Inumbers \ {ROOT_DIR_INUM} :
            free_inode_ts[i] = TAKEN => Cardinality(EntriesOf(i)) = 1)

\* C25: add_to_open_file_table returns -1 exactly when no entry of the open
\* file table is FREE; the step that returns -1 leaves the open file table,
\* its count and the file system as they were, and the i-node the open
\* created or found is still TAKEN and in the directory under the name.
\* When the main thread's open that creates the second file has returned -1
\* and its later open of that name a handle, the handle refers to the
\* i-node the directory has for the name.
C25_FullTableKeepsFile ==
    /\ [][\A t \in Threads :
            (pc[t] = "add_to_open_file_table_body" /\ StepOf(t)) =>
                /\ loc'[t].ret = -1 <=> TakenEntries = Handles
                /\ loc'[t].ret = -1 =>
                      /\ UNCHANGED <<oftvars, fsvars>>
                      /\ free_inode_ts[loc[t].inum] = TAKEN
                      /\ find_in_dir_unsafe(FS, ROOT_DIR_INUM, loc[t].name)
                            = loc[t].inum]_vars
    /\ []( ( /\ Len(res[Main]) >= 6
             /\ res[Main][4] = -1
             /\ res[Main][6] >= 0
             /\ ip[Main] = 7
             /\ pc[Main] = "idle" ) =>
               /\ find_in_dir_unsafe(FS, ROOT_DIR_INUM, NameB)
                     \in Inumbers \ {ROOT_DIR_INUM}
               /\ open_file_table[res[Main][6]].of_inumber
                     = find_in_dir_unsafe(FS, ROOT_DIR_INUM, NameB) )

\* C25 witness: with its three handles open the main thread's creation of
\* the second file returned -1, no worker having opened anything; the main
\* thread closed a handle and opened the second file.
C25_Witness ==
    /\ Len(res[Main]) = 6
    /\ res[Main][1] >= 0 /\ res[Main][2] >= 0 /\ res[Main][3] >= 0
    /\ res[Main][4] = -1
    /\ res[Main][5] = 0
    /\ res[Main][6] >= 0
    /\ \A t \in Workers : res[t] = <<>> /\ pc[t] = "idle"
    /\ free_inode_ts[open_file_table[res[Main][6]].of_inumber] = TAKEN
    /\ open_file_count = MAX_OPEN_FILES

\* C26 as stated (on the threads of SpecReopen): a thread whose read or
\* write has returned holds neither the mutex of an entry nor the lock of an
\* i-node.
C26_LocksReleasedOnReturn ==
    \A t \in Threads :
        (pc[t] = "idle" /\ loc[t].op \in {"read", "write"}) =>
            /\ HeldOfMutexes(t) = {}
            /\ HeldRwlocks(t) = {}

(***************************************************************************)
(* Reading and writing through a handle in append mode.  The main thread   *)
(* opens a file with TFS_O_CREAT and TFS_O_APPEND, writes, reads and       *)
(* writes through the handle, opens the file with TFS_O_TRUNC, and reads,  *)
(* writes and reads through the first handle again.  Meanwhile every other *)
(* worker writes to the file through a handle of its own that is not in    *)
(* append mode, closes it and opens the file with TFS_O_TRUNC, and the     *)
(* others read the file through a handle of their own and close it.  With  *)
(* NumWorkers < MAX_OPEN_FILES the first open of the main thread finds a   *)
(* FREE entry; with more workers it can return -1, and the main thread     *)
(* then has no handle in append mode.                                      *)
(***************************************************************************)
AppendIOMainProg(n1, n2) ==
    <<OpOpen(NameA, {TFS_O_CREAT, TFS_O_APPEND}),
      OpWriteRef(<<Main, 1>>, Buf(Main, n1)),
      OpReadRef(<<Main, 1>>, MaxLen),
      OpWriteRef(<<Main, 1>>, Buf(Main, n2)),
      OpOpen(NameA, {TFS_O_TRUNC}),
      OpReadRef(<<Main, 1>>, 1),
      OpWriteRef(<<Main, 1>>, Buf(Main, 1)),
      OpReadRef(<<Main, 1>>, MaxLen)>>

AppendIOWorkerProg(t) ==
    IF t % 2 = 0
    THEN <<OpOpen(NameA, {TFS_O_CREAT}), OpWriteRef(<<t, 1>>, Buf(t, MaxLen)),
           OpCloseRef(<<t, 1>>), OpOpen(NameA, {TFS_O_TRUNC})>>
    ELSE <<OpOpen(NameA, {TFS_O_CREAT}), OpReadRef(<<t, 1>>, MaxLen),
           OpCloseRef(<<t, 1>>)>>

InitAppendIO ==
    \E n1 \in {1, BLOCK_SIZE + 1}, n2 \in {1, MAX_FILE_SIZE} :
        InitState([t \in Threads |-> IF t = Main THEN AppendIOMainProg(n1, n2)
                                     ELSE AppendIOWorkerProg(t)],
                  NoMenu, NoBudget)

NextAppendIO == \E t \in Threads : IOStep(t)

SpecAppendIO == InitAppendIO /\ [][NextAppendIO]_vars

\* Thread t is in a read or a write through a handle in append mode
InAppendIO(t) ==
    /\ pc[t] \in {"write_check", "write_block", "read_check", "read_block"}
    /\ open_file_table[loc[t].fh].of_append

\* C27: through a handle opened with TFS_O_APPEND, the bounds check of a
\* read or of a write leaves the offset at the size of the file and never
\* fails; a read transfers no byte and returns 0; a write returns its
\* length, clamped at the capacity of the file, and the file is afterwards
\* what it was followed by the bytes written.  So when the main thread got
\* its handle in append mode, every read of it returns 0 and every write of
\* it a count, before and after the truncations.
C27_AppendHandle ==
    /\ [][\A t \in Threads :
            (InAppendIO(t) /\ StepOf(t)) =>
                \A fh \in {loc[t].fh}, i \in {loc[t].inode} :
                    /\ pc[t] \in {"write_check", "read_check"} =>
                          /\ open_file_table'[fh].of_offset
                                = inode_table[i].i_size
                          /\ pc'[t] # "idle"
                    /\ pc[t] = "write_check" =>
                          loc'[t].count
                             = Min(Len(loc[t].buf),
                                   MAX_FILE_SIZE - inode_table[i].i_size)
                    /\ pc[t] = "read_check" => loc'[t].count = 0
                    /\ (loc[t].op = "read" /\ pc'[t] = "idle") =>
                          /\ loc'[t].ret = 0
                          /\ loc'[t].rbuf = <<>>
                          /\ UNCHANGED <<fsvars, open_file_table>>
                    /\ (loc[t].op = "write" /\ pc'[t] = "idle") =>
                          /\ loc'[t].ret = loc[t].count
                          /\ FileContent(i)'
                                = FileContent(i)
                                     \o SubSeq(loc[t].buf, 1, loc[t].count)]_vars
    /\ [](\A k \in 2 .. Len(res[Main]) :
            res[Main][1] >= 0 =>
                /\ prog[Main][k].op = "read" => res[Main][k] = 0
                /\ prog[Main][k].op = "write" => res[Main][k] >= 0)

\* C27 witness: the main thread wrote BLOCK_SIZE + 1 bytes and one byte
\* more through the handle in append mode, truncated the file, and its
\* read, write and read through the handle returned 0, 1 and 0, a worker
\* having written to the file in between.
C27_Witness ==
    /\ Len(res[Main]) = 8
    /\ res[Main][2] = BLOCK_SIZE + 1
    /\ res[Main][4] = 1
    /\ res[Main][5] >= 0
    /\ res[Main][6] = 0
    /\ res[Main][7] = 1
    /\ res[Main][8] = 0
    /\ \E t \in Workers : Len(res[t]) >= 2 /\ res[t][2] = MaxLen
    /\ open_file_table[res[Main][1]].of_append

(***************************************************************************)
(* Readers of one file.  The main thread creates a file, writes MaxLen     *)
(* bytes to it, closes its handle and opens the file with TFS_O_TRUNC.     *)
(* Every worker opens the file, reads through its own handle and then      *)
(* through the handle of the next worker, so that each handle is read by   *)
(* two threads and the file is read through two handles.                   *)
(***************************************************************************)
NextWorker(t) == IF t = NumWorkers + 1 THEN Main + 1 ELSE t + 1

ReadersMainProg ==
    <<OpOpen(NameA, {TFS_O_CREAT}),
      OpWriteRef(<<Main, 1>>, Buf(Main, MaxLen)),
      OpCloseRef(<<Main, 1>>),
      OpOpen(NameA, {TFS_O_TRUNC})>>

ReadersWorkerProg(t) ==
    <<OpOpen(NameA, {TFS_O_CREAT}),
      OpReadRef(<<t, 1>>, MaxLen),
      OpReadRef(<<NextWorker(t), 1>>, MaxLen)>>

InitReaders ==
    InitState([t \in Threads |-> IF t = Main THEN ReadersMainProg
                                 ELSE ReadersWorkerProg(t)],
              NoMenu, NoBudget)

NextReaders == \E t \in Threads : IOStep(t)

SpecReaders == InitReaders /\ [][NextReaders]_vars

\* Thread t is in a read and holds the mutex of the entry
InRead(t) == pc[t] \in {"read_rdlock", "read_check", "read_block"}

\* Thread t is in a read and holds the mutex of the entry and the read lock
\* of the i-node
InReadTransfer(t) == pc[t] \in {"read_check", "read_block"}

\* C28: two threads in a read at the same time read through two different
\* handles, each holding the mutex of its own; those that have locked the
\* i-node are both readers of its rwlock.
C28_ReadsOfOneHandleExclude ==
    \A t \in Threads :
        /\ InRead(t) => of_mutex[loc[t].fh] = t
        /\ InReadTransfer(t) => t \in inode_lock_table[loc[t].inode].r
        /\ \A u \in Threads \ {t} :
              (InRead(t) /\ InRead(u)) => loc[t].fh # loc[u].fh

\* C28 witness: two threads are copying bytes out of the same i-node at the
\* same time, through two different handles, each with bytes copied and
\* bytes to go.
C28_Witness ==
    \E t \in Threads, u \in Threads :
        /\ t # u
        /\ pc[t] = "read_block" /\ pc[u] = "read_block"
        /\ loc[t].fh # loc[u].fh
        /\ loc[t].inode = loc[u].inode
        /\ open_file_table[loc[t].fh].of_inumber = loc[t].inode
        /\ open_file_table[loc[u].fh].of_inumber = loc[u].inode
        /\ {t, u} \subseteq inode_lock_table[loc[t].inode].r
        /\ loc[t].done > 0 /\ loc[t].done < loc[t].count
        /\ loc[u].done > 0 /\ loc[u].done < loc[u].count

=============================================================================
